---- MODULE Spec2Model ----
(***************************************************************************)
(* LedgerTrace ownership tracer (backend/app/ownership_tracer.py) and the  *)
(* /ownership-analysis endpoint that drives it.                            *)
(*                                                                         *)
(* Entities are identified by filing_id (a positive integer here); the     *)
(* object graph of Entity.owns / Entity.owned_by is kept as an id-indexed  *)
(* map.  Strings are sequences of one-character strings.  Similarity       *)
(* ratios are kept exact as <<numerator, denominator>> pairs.              *)
(***************************************************************************)
EXTENDS Integers, Sequences, FiniteSets, TLC

VARIABLES
    pc,               \* position inside trace_ownership_chain
    network,          \* ownership_network: filing_id -> Entity
    root_entity,      \* filing_id of the root entity
    chains,           \* result of _detect_ownership_chains (list of id lists)
    analyzed_chains,  \* list of OwnershipChain records
    \* the registry behind the tracer
    registry,         \* filing_id -> Entity as the registry holds it
    officer_index,    \* officer name -> filing_ids, the officer search source
    \* locals of _build_ownership_network
    max_depth,
    current_depth,
    entities_to_process,
    current_level_entities,
    level_index,      \* position of the for loop in current_level_entities
    processed_entities,
    build_log,        \* the expansions and the queueings of the run, in order
    \* the rate limiter of one tracer and the lookups waiting on it
    now,              \* time.time(), in seconds
    last_request_time,
    lookup,           \* lookup -> its position inside _rate_limit
    completions,      \* the _rate_limit calls that returned, in order
    \* the POST /ownership-analysis endpoint
    calls,            \* call -> its request and how far it got
    limiter_hits,     \* calls the slowapi limiter counted in this window
    \* one tracer session and its registry traffic
    entity_cache,     \* self.entity_cache: filing_id -> Entity
    requests,         \* the HTTP requests sent to the registry, in order
    failed_lookups,   \* the lookups that failed so far, each with the ids then in the network
    details_calls,    \* the _get_sunbiz_entity_details calls made so far, in order
    report,           \* what get_shell_company_report returned
    traffic,          \* the _rate_limit waits and the HTTP requests of the session, in order
    \* Officer.__post_init__
    normalization,    \* a string, and what normalizing it once and twice gave
    \* _calculate_similarity
    comparison,       \* two strings, and the scores computed for them
    \* concurrent analyze_ownership_chains calls
    tracers,          \* the OwnershipTracer objects constructed so far
    sessions,         \* session -> its position and the tracer it holds
    accesses          \* the reads and writes of tracer attributes by the calls

traceVars == <<pc, network, root_entity, chains, analyzed_chains>>
registryVars == <<registry, officer_index>>
buildVars == <<max_depth, current_depth, entities_to_process,
               current_level_entities, level_index, processed_entities, build_log>>

rateVars == <<now, last_request_time, lookup, completions>>
apiVars == <<calls, limiter_hits>>
sessionVars == <<entity_cache, requests, failed_lookups, details_calls, report, traffic>>
normVars == <<normalization>>
simVars == <<comparison>>
concVars == <<tracers, sessions, accesses>>

vars == <<traceVars, registryVars, buildVars, rateVars, apiVars, sessionVars, normVars,
         simVars, concVars>>

-----------------------------------------------------------------------------
(* Generic helpers *)

Range(s) == {s[i] : i \in 1..Len(s)}

RECURSIVE Flatten(_)
Flatten(ss) == IF ss = <<>> THEN <<>> ELSE Head(ss) \o Flatten(Tail(ss))

RECURSIVE SetToSeq(_)
\* ascending enumeration of a finite set of integers
SetToSeq(S) ==
    IF S = {} THEN <<>>
    ELSE LET m == CHOOSE x \in S : \A y \in S : x <= y
         IN  <<m>> \o SetToSeq(S \ {m})

Min(a, b) == IF a < b THEN a ELSE b

-----------------------------------------------------------------------------
(* OwnershipTracer.__init__ *)

max_chain_depth == 10
officer_similarity_threshold == 85   \* 0.85, in hundredths
request_delay == 2                   \* 2.0 seconds

-----------------------------------------------------------------------------
(* _calculate_similarity: difflib.SequenceMatcher(None, a, b).ratio()      *)

UpperCase == <<"A", "B", "C", "D", "E", "F", "G", "H", "I", "J", "K", "L", "M",
               "N", "O", "P", "Q", "R", "S", "T", "U", "V", "W", "X", "Y", "Z">>
LowerCase == <<"a", "b", "c", "d", "e", "f", "g", "h", "i", "j", "k", "l", "m",
               "n", "o", "p", "q", "r", "s", "t", "u", "v", "w", "x", "y", "z">>

\* str.lower() on one character
Lower(ch) ==
    IF \E i \in 1..26 : UpperCase[i] = ch
    THEN LowerCase[CHOOSE i \in 1..26 : UpperCase[i] = ch]
    ELSE ch

LowerStr(s) == [i \in 1..Len(s) |-> Lower(s[i])]

\* length of the common run of a from i and b from j inside the windows
RECURSIVE RunLen(_, _, _, _, _, _)
RunLen(a, b, i, j, ahi, bhi) ==
    IF i <= ahi /\ j <= bhi /\ a[i] = b[j]
    THEN 1 + RunLen(a, b, i + 1, j + 1, ahi, bhi)
    ELSE 0

\* find_longest_match(alo, ahi, blo, bhi) with no junk: the longest block,
\* earliest in a, then earliest in b; windows are 1-based and inclusive
find_longest_match(a, b, alo, ahi, blo, bhi) ==
    LET cands == {<<i, j>> : i \in alo..ahi, j \in blo..bhi}
        len(c) == RunLen(a, b, c[1], c[2], ahi, bhi)
        lens  == {len(c) : c \in cands}
        best  == IF cands = {} THEN 0
                 ELSE CHOOSE n \in lens : \A m \in lens : n >= m
    IN  IF best = 0 THEN <<alo, blo, 0>>
        ELSE LET top == {c \in cands : len(c) = best}
                 i0  == CHOOSE i \in {c[1] : c \in top} : \A c \in top : i <= c[1]
                 j0  == CHOOSE j \in {c[2] : c \in {d \in top : d[1] = i0}} :
                            \A c \in {d \in top : d[1] = i0} : j <= c[2]
             IN  <<i0, j0, best>>

\* sum of the sizes of get_matching_blocks()
RECURSIVE MatchedChars(_, _, _, _, _, _)
MatchedChars(a, b, alo, ahi, blo, bhi) ==
    IF alo > ahi \/ blo > bhi THEN 0
    ELSE LET m == find_longest_match(a, b, alo, ahi, blo, bhi)
             i == m[1]
             j == m[2]
             k == m[3]
         IN  IF k = 0 THEN 0
             ELSE k + MatchedChars(a, b, alo, i - 1, blo, j - 1)
                    + MatchedChars(a, b, i + k, ahi, j + k, bhi)

\* ratio() as <<numerator, denominator>>; 1.0 when both strings are empty
_calculate_similarity(text1, text2) ==
    LET a == LowerStr(text1)
        b == LowerStr(text2)
        T == Len(a) + Len(b)
    IN  IF T = 0 THEN <<1, 1>>
        ELSE <<2 * MatchedChars(a, b, 1, Len(a), 1, Len(b)), T>>

\* ratio >= threshold (threshold in hundredths)
SimilarityAtLeast(ratio, hundredths) == 100 * ratio[1] >= hundredths * ratio[2]

-----------------------------------------------------------------------------
(* Officers and entities *)

Officer(name, title) == [normalized_name |-> name, title |-> title]

\* the officer titles used in the inputs
TitlePresident == <<"P", "r", "e", "s", "i", "d", "e", "n", "t">>
TitleManager   == <<"M", "a", "n", "a", "g", "e", "r">>
TitleSecretary == <<"S", "e", "c", "r", "e", "t", "a", "r", "y">>
TitleDirector  == <<"D", "i", "r", "e", "c", "t", "o", "r">>
TitleTreasurer == <<"T", "r", "e", "a", "s", "u", "r", "e", "r">>

Entity(id, officers, recent, owns) ==
    [ filing_id       |-> id,
      officers        |-> officers,
      recent          |-> recent,       \* date_filed > now - 365 days
      owns            |-> owns,
      owned_by        |-> <<>>,
      ownership_depth |-> 0 ]

_has_shared_officer(entity1, entity2) ==
    \E i \in 1..Len(entity1.officers) : \E j \in 1..Len(entity2.officers) :
        SimilarityAtLeast(
            _calculate_similarity(entity1.officers[i].normalized_name,
                                  entity2.officers[j].normalized_name),
            officer_similarity_threshold)

-----------------------------------------------------------------------------
(* _detect_ownership_chains *)

\* build_chain with one visited set shared by every path
RECURSIVE GlobalVisitedWalk(_, _, _, _)
RECURSIVE GlobalVisitedChildren(_, _, _, _, _)
GlobalVisitedWalk(net, entity, current_chain, visited) ==
    IF entity \in visited \/ Len(current_chain) > max_chain_depth
    THEN [out |-> <<>>, vis |-> visited]
    ELSE LET chain2 == Append(current_chain, entity)
             vis2   == visited \cup {entity}
         IN  IF net[entity].owns # <<>>
             THEN GlobalVisitedChildren(net, net[entity].owns, 1, chain2, vis2)
             ELSE [out |-> IF Len(chain2) > 1 THEN <<chain2>> ELSE <<>>, vis |-> vis2]

GlobalVisitedChildren(net, owns, k, chain2, visited) ==
    IF k > Len(owns) THEN [out |-> <<>>, vis |-> visited]
    ELSE LET first == GlobalVisitedWalk(net, owns[k], chain2, visited)
             rest  == GlobalVisitedChildren(net, owns, k + 1, chain2, first.vis)
         IN  [out |-> first.out \o rest.out, vis |-> rest.vis]

build_chain_GlobalVisited(net, entity, current_chain, visited) ==
    GlobalVisitedWalk(net, entity, current_chain, visited).out

\* the nested build_chain; returns the chains it appends, in order
RECURSIVE build_chain_NoVisitedCheck(_, _, _, _)
build_chain_NoVisitedCheck(net, entity, current_chain, visited) ==
    IF Len(current_chain) > max_chain_depth THEN <<>>
    ELSE LET chain2 == Append(current_chain, entity)
             vis2   == visited \cup {entity}
             owns   == net[entity].owns
         IN  IF owns # <<>>
             THEN Flatten([k \in 1..Len(owns) |->
                              build_chain_NoVisitedCheck(net, owns[k], chain2, vis2)])
             ELSE IF Len(chain2) > 1 THEN <<chain2>> ELSE <<>>

\* build_chain storing the path so far when it is cut off
RECURSIVE build_chain_EmitsTruncated(_, _, _, _)
build_chain_EmitsTruncated(net, entity, current_chain, visited) ==
    IF entity \in visited \/ Len(current_chain) > max_chain_depth
    THEN IF Len(current_chain) > 1 THEN <<current_chain>> ELSE <<>>
    ELSE LET chain2 == Append(current_chain, entity)
             vis2   == visited \cup {entity}
             owns   == net[entity].owns
         IN  IF owns # <<>>
             THEN Flatten([k \in 1..Len(owns) |->
                              build_chain_EmitsTruncated(net, owns[k], chain2, vis2)])
             ELSE IF Len(chain2) > 1 THEN <<chain2>> ELSE <<>>

\* build_chain storing every ended path, a lone root included
RECURSIVE build_chain_NoLengthCheck(_, _, _, _)
build_chain_NoLengthCheck(net, entity, current_chain, visited) ==
    IF entity \in visited \/ Len(current_chain) > max_chain_depth THEN <<>>
    ELSE LET chain2 == Append(current_chain, entity)
             vis2   == visited \cup {entity}
             owns   == net[entity].owns
         IN  IF owns # <<>>
             THEN Flatten([k \in 1..Len(owns) |->
                              build_chain_NoLengthCheck(net, owns[k], chain2, vis2)])
             ELSE <<chain2>>

RECURSIVE build_chain(_, _, _, _)
build_chain(net, entity, current_chain, visited) ==
    IF entity \in visited \/ Len(current_chain) > max_chain_depth THEN <<>>
    ELSE LET chain2 == Append(current_chain, entity)
             vis2   == visited \cup {entity}
             owns   == net[entity].owns
         IN  IF owns # <<>>
             THEN Flatten([k \in 1..Len(owns) |->
                              build_chain(net, owns[k], chain2, vis2)])
             ELSE IF Len(chain2) > 1 THEN <<chain2>> ELSE <<>>

_detect_ownership_chains(net, root) == build_chain(net, root, <<>>, {})

-----------------------------------------------------------------------------
(* _analyze_ownership_chain *)

_count_shared_officers_in_chain(net, entity, chain) ==
    Cardinality({k \in 1..Len(chain) :
                    /\ chain[k] # entity
                    /\ _has_shared_officer(net[entity], net[chain[k]])})

\* a check that only sees a chain closing on its first entity
_has_circular_ownership_FirstEqualsLast(chain) ==
    Len(chain) > 1 /\ chain[1] = chain[Len(chain)]

_has_circular_ownership(chain) == Len(chain) # Cardinality(Range(chain))

\* EntityIndicators with the officer test reading "fewer than two officers"
EntityIndicators_FewerThanTwoOfficers(net, id, chain) ==
    LET e      == net[id]
        shared == _count_shared_officers_in_chain(net, id, chain)
    IN  [ indicators |->
              (IF e.recent THEN <<<<"Recent formation", id>>>> ELSE <<>>)
           \o (IF Len(e.officers) < 2 THEN <<<<"Minimal officers", id>>>> ELSE <<>>)
           \o (IF shared > 0 THEN <<<<"Shared officers", id>>>> ELSE <<>>),
          score |->
              (IF e.recent THEN 15 ELSE 0)
            + (IF Len(e.officers) < 2 THEN 20 ELSE 0)
            + (IF shared > 0 THEN 10 * shared ELSE 0) ]

\* indicators and score contributed by one entity of the chain
EntityIndicators(net, id, chain) ==
    LET e      == net[id]
        shared == _count_shared_officers_in_chain(net, id, chain)
    IN  [ indicators |->
              (IF e.recent THEN <<<<"Recent formation", id>>>> ELSE <<>>)
           \o (IF Len(e.officers) <= 2 THEN <<<<"Minimal officers", id>>>> ELSE <<>>)
           \o (IF shared > 0 THEN <<<<"Shared officers", id>>>> ELSE <<>>),
          score |->
              (IF e.recent THEN 15 ELSE 0)
            + (IF Len(e.officers) <= 2 THEN 20 ELSE 0)
            + (IF shared > 0 THEN 10 * shared ELSE 0) ]

RECURSIVE SumScores(_, _, _)
SumScores(net, chain, k) ==
    IF k = 0 THEN 0
    ELSE SumScores(net, chain, k - 1) + EntityIndicators(net, chain[k], chain).score

\* the sum with the two depth rules exclusive (elif) instead of additive
RawRiskScore_ExclusiveDepth(net, chain) ==
      SumScores(net, chain, Len(chain))
    + (IF Len(chain) >= 5 THEN 40 ELSE IF Len(chain) >= 3 THEN 25 ELSE 0)
    + (IF _has_circular_ownership(chain) THEN 50 ELSE 0)

\* the unclamped sum of every contribution
RawRiskScore(net, chain) ==
      SumScores(net, chain, Len(chain))
    + (IF Len(chain) >= 3 THEN 25 ELSE 0)
    + (IF Len(chain) >= 5 THEN 40 ELSE 0)
    + (IF _has_circular_ownership(chain) THEN 50 ELSE 0)

ObfuscationPatterns(chain) ==
       (IF Len(chain) >= 3 THEN <<"Deep ownership structure (3+ layers)">> ELSE <<>>)
    \o (IF Len(chain) >= 5 THEN <<"Very deep ownership structure (5+ layers)">> ELSE <<>>)
    \o (IF _has_circular_ownership(chain) THEN <<"Circular ownership detected">> ELSE <<>>)

NormalizeRiskScore_NoClamp(raw) == raw

\* risk_score = min(risk_score, 100)
NormalizeRiskScore(raw) == Min(raw, 100)

_analyze_ownership_chain(net, chain) ==
    [ root_entity          |-> chain[1],
      chain                |-> chain,
      depth                |-> Len(chain),
      shell_indicators     |-> Flatten([k \in 1..Len(chain) |->
                                   EntityIndicators(net, chain[k], chain).indicators]),
      risk_score           |-> NormalizeRiskScore(RawRiskScore(net, chain)),
      obfuscation_patterns |-> ObfuscationPatterns(chain) ]

-----------------------------------------------------------------------------
(* Input networks for the chain extractor                                   *)

MaxDense == 3      \* entities of an arbitrary owns graph
MaxPathLen == 12   \* entities of a single-path owns graph

NameSmith == <<"s", "m", "i", "t", "h">>
NameDoe   == <<"d", "o", "e">>
NameRay   == <<"r", "a", "y">>
NameLee   == <<"l", "e", "e">>

\* recently filed, a single officer
ShellEntity(id, owns) ==
    Entity(id, <<Officer(NameSmith, TitlePresident)>>, TRUE, owns)

\* filed long ago, three officers
EstablishedEntity(id, owns) ==
    Entity(id, <<Officer(NameDoe, TitleDirector), Officer(NameRay, TitleSecretary),
                 Officer(NameLee, TitleTreasurer)>>, FALSE, owns)

\* owns edges are kept in both directions: owns and owned_by
MakeNetwork(n, ownsOf, shellIds) ==
    [id \in 1..n |->
        [(IF id \in shellIds THEN ShellEntity(id, SetToSeq(ownsOf[id]))
          ELSE EstablishedEntity(id, SetToSeq(ownsOf[id])))
         EXCEPT !.owned_by = SetToSeq({j \in 1..n : id \in ownsOf[j]})]]

\* every owns graph without self-loops over MaxDense entities
DenseNetworks ==
    {MakeNetwork(MaxDense, g, sh) :
        g \in {f \in [1..MaxDense -> SUBSET (1..MaxDense)] :
                  \A id \in 1..MaxDense : id \notin f[id]},
        sh \in {{}, {1}, 1..MaxDense}}

\* 1 owns 2 owns ... owns n, the last entity owning nothing (back = 0) or
\* pointing back to entity back (back = n is a self-loop)
PathNetwork(n, back, shellIds) ==
    MakeNetwork(n, [id \in 1..n |-> IF id < n THEN {id + 1}
                                     ELSE IF back = 0 THEN {} ELSE {back}], shellIds)

PathNetworks ==
    UNION {{PathNetwork(n, back, sh) : back \in 0..n, sh \in {{}, 1..n}} :
              n \in 1..MaxPathLen}

InputNetworks == DenseNetworks \cup PathNetworks

-----------------------------------------------------------------------------
(* trace_ownership_chain, from the built network on                         *)

\* nothing registered, no officer search source
RegistryIdle ==
    /\ registry = <<>>
    /\ officer_index = <<>>

\* _build_ownership_network is not running
BuildIdle ==
    /\ max_depth = 0
    /\ current_depth = 0
    /\ entities_to_process = <<>>
    /\ current_level_entities = <<>>
    /\ level_index = 0
    /\ processed_entities = {}
    /\ build_log = <<>>

\* no lookup is waiting on the rate limiter
RateIdle ==
    /\ now = 0
    /\ last_request_time = 0
    /\ lookup = <<>>
    /\ completions = <<>>

\* no HTTP call
ApiIdle ==
    /\ calls = <<>>
    /\ limiter_hits = 0

\* a fresh tracer that has sent nothing and reported nothing
SessionIdle ==
    /\ entity_cache = <<>>
    /\ requests = <<>>
    /\ failed_lookups = <<>>
    /\ details_calls = <<>>
    /\ report = "none"
    /\ traffic = <<>>

\* no officer is being constructed
NormIdle == normalization = "none"

\* no comparison of strings
SimIdle == comparison = "none"

\* no concurrent sessions
ConcIdle ==
    /\ tracers = <<>>
    /\ sessions = <<>>
    /\ accesses = {}

DetectInit ==
    /\ pc = "detect"
    /\ network \in InputNetworks
    /\ root_entity = 1
    /\ chains = <<>>
    /\ analyzed_chains = <<>>
    /\ RegistryIdle
    /\ BuildIdle
    /\ RateIdle
    /\ ApiIdle
    /\ SessionIdle
    /\ NormIdle
    /\ SimIdle
    /\ ConcIdle

\* chains = self._detect_ownership_chains(ownership_network, root_entity)
DetectOwnershipChains ==
    /\ pc = "detect"
    /\ chains' = _detect_ownership_chains(network, root_entity)
    /\ pc' = "analyze"
    /\ UNCHANGED <<network, root_entity, analyzed_chains, registryVars, sessionVars, normVars, simVars, concVars, buildVars, rateVars, apiVars>>

\* one iteration of: for chain in chains: analyzed_chains.append(...)
AnalyzeNextChain ==
    /\ pc = "analyze"
    /\ Len(analyzed_chains) < Len(chains)
    /\ analyzed_chains' = Append(analyzed_chains,
            _analyze_ownership_chain(network, chains[Len(analyzed_chains) + 1]))
    /\ UNCHANGED <<pc, network, root_entity, chains, registryVars, sessionVars, normVars, simVars, concVars, buildVars, rateVars, apiVars>>

RECURSIVE InsertByRisk(_, _)
\* stable insertion into a list ordered by risk_score, highest first
InsertByRisk(sorted, c) ==
    IF sorted = <<>> THEN <<c>>
    ELSE IF Head(sorted).risk_score >= c.risk_score
         THEN <<Head(sorted)>> \o InsertByRisk(Tail(sorted), c)
         ELSE <<c>> \o sorted

\* no sort: the chains stay in the order of extraction
SortByRiskDesc_ExtractionOrder(cs) == cs

RECURSIVE SortByRiskDesc(_)
SortByRiskDesc(cs) ==
    IF cs = <<>> THEN <<>>
    ELSE InsertByRisk(SortByRiskDesc(SubSeq(cs, 1, Len(cs) - 1)), cs[Len(cs)])

\* analyzed_chains.sort(key=lambda x: x.risk_score, reverse=True); return
SortAndReturn ==
    /\ pc = "analyze"
    /\ Len(analyzed_chains) = Len(chains)
    /\ analyzed_chains' = SortByRiskDesc(analyzed_chains)
    /\ pc' = "returned"
    /\ UNCHANGED <<network, root_entity, chains, registryVars, sessionVars, normVars, simVars, concVars, buildVars, rateVars, apiVars>>

DetectNext == DetectOwnershipChains \/ AnalyzeNextChain \/ SortAndReturn

DetectSpec == DetectInit /\ [][DetectNext]_vars

-----------------------------------------------------------------------------
(* _analyze_ownership_chain on arbitrary chains                             *)

MaxAnalyzeLen == 5   \* entities of a chain handed to the scorer

NameSmithe == <<"s", "m", "i", "t", "h", "e">>

EntityPool ==
    [id \in 1..3 |->
        CASE id = 1 -> ShellEntity(1, <<>>)
          [] id = 2 -> EstablishedEntity(2, <<>>)
          [] id = 3 -> Entity(3, <<Officer(NameSmithe, TitleManager),
                                   Officer(NameDoe, TitleSecretary)>>, FALSE, <<>>)]

AnalyzeInit ==
    /\ pc = "analyze"
    /\ network = EntityPool
    /\ \E n \in 1..MaxAnalyzeLen : \E c \in [1..n -> DOMAIN EntityPool] :
          /\ chains = <<c>>
          /\ root_entity = c[1]
    /\ analyzed_chains = <<>>
    /\ RegistryIdle
    /\ BuildIdle
    /\ RateIdle
    /\ ApiIdle
    /\ SessionIdle
    /\ NormIdle
    /\ SimIdle
    /\ ConcIdle

AnalyzeNext == AnalyzeNextChain \/ SortAndReturn

AnalyzeSpec == AnalyzeInit /\ [][AnalyzeNext]_vars

-----------------------------------------------------------------------------
(* _build_ownership_network and what it calls                               *)

\* needle in hay, for strings
Contains(hay, needle) ==
    \E i \in 0..(Len(hay) - Len(needle)) :
        \A k \in 1..Len(needle) : hay[i + k] = needle[k]

ownership_titles ==
    { <<"p", "r", "e", "s", "i", "d", "e", "n", "t">>,
      <<"c", "e", "o">>,
      <<"m", "a", "n", "a", "g", "i", "n", "g", " ", "m", "e", "m", "b", "e", "r">>,
      <<"m", "a", "n", "a", "g", "e", "r">>,
      <<"s", "o", "l", "e", " ", "m", "e", "m", "b", "e", "r">>,
      <<"o", "w", "n", "e", "r">>,
      <<"p", "r", "i", "n", "c", "i", "p", "a", "l">>,
      <<"m", "a", "n", "a", "g", "i", "n", "g", " ", "d", "i", "r", "e", "c", "t", "o", "r">> }

_is_ownership_relationship(entity1, entity2) ==
    \E i \in 1..Len(entity1.officers) :
        /\ \E t \in ownership_titles : Contains(LowerStr(entity1.officers[i].title), t)
        /\ \E j \in 1..Len(entity2.officers) :
              SimilarityAtLeast(
                  _calculate_similarity(entity1.officers[i].normalized_name,
                                        entity2.officers[j].normalized_name),
                  officer_similarity_threshold)

\* an officer search that lists every registered entity under every name
_search_entities_by_officer_ListsAll(officer_name) ==
    SetToSeq(DOMAIN registry)

\* The shipped method returns [] ("implement based on data source"): that is
\* the empty officer_index.  With a data source plugged in, the entities the
\* source lists under the officer name are returned.
_search_entities_by_officer(officer_name) ==
    IF officer_name \in DOMAIN officer_index THEN officer_index[officer_name] ELSE <<>>

RECURSIVE RemoveDuplicates(_, _)
\* the seen_ids loop: the first occurrence of each filing_id, in order
RemoveDuplicates(ids, seen_ids) ==
    IF ids = <<>> THEN <<>>
    ELSE IF Head(ids) \in seen_ids THEN RemoveDuplicates(Tail(ids), seen_ids)
         ELSE <<Head(ids)>> \o RemoveDuplicates(Tail(ids), seen_ids \cup {Head(ids)})

_find_related_entities(entity) ==
    LET Keep(id) == /\ id # entity.filing_id
                    /\ _has_shared_officer(entity, registry[id])
        related_entities ==
            Flatten([k \in 1..Len(entity.officers) |->
                SelectSeq(_search_entities_by_officer(entity.officers[k].normalized_name),
                          Keep)])
    IN  RemoveDuplicates(related_entities, {})

\* while entities_to_process and current_depth < max_depth
BuildLoopGuard_OffByOne == entities_to_process # <<>> /\ current_depth <= max_depth

BuildLoopGuard == entities_to_process # <<>> /\ current_depth < max_depth

RECURSIVE AddRelated_LinksKnown(_, _, _, _, _)
\* the loop establishing the ownership relationship for every related
\* entity, also for one the network already has
AddRelated_LinksKnown(net, queue, entity, related, k) ==
    IF k > Len(related) THEN [net |-> net, queue |-> queue]
    ELSE LET rid == related[k]
             known  == rid \in DOMAIN net
             fresh  == IF known THEN net[rid]
                       ELSE [registry[rid] EXCEPT !.owns = <<>>, !.owned_by = <<>>,
                                                  !.ownership_depth = 0]
             owning == _is_ownership_relationship(net[entity], fresh)
             net2   == [id \in DOMAIN net \cup {rid} |->
                          IF id = rid
                          THEN (IF owning
                                THEN [fresh EXCEPT !.owned_by = Append(@, entity)]
                                ELSE fresh)
                          ELSE IF id = entity /\ owning
                               THEN [net[id] EXCEPT !.owns = Append(@, rid)]
                               ELSE net[id]]
         IN  AddRelated_LinksKnown(net2, IF known THEN queue ELSE Append(queue, rid),
                                   entity, related, k + 1)

RECURSIVE AddRelated_Requeue(_, _, _, _, _)
\* the loop queueing a related entity whether or not the network has it
AddRelated_Requeue(net, queue, entity, related, k) ==
    IF k > Len(related) THEN [net |-> net, queue |-> queue]
    ELSE LET rid == related[k]
         IN  IF rid \in DOMAIN net
             THEN AddRelated_Requeue(net, Append(queue, rid), entity, related, k + 1)
             ELSE LET fresh  == [registry[rid] EXCEPT !.owns = <<>>, !.owned_by = <<>>,
                                                     !.ownership_depth = 0]
                      owning == _is_ownership_relationship(net[entity], fresh)
                      net2   == [id \in DOMAIN net \cup {rid} |->
                                   IF id = rid
                                   THEN (IF owning
                                         THEN [fresh EXCEPT !.owned_by = <<entity>>]
                                         ELSE fresh)
                                   ELSE IF id = entity /\ owning
                                        THEN [net[id] EXCEPT !.owns = Append(@, rid)]
                                        ELSE net[id]]
                  IN  AddRelated_Requeue(net2, Append(queue, rid), entity, related, k + 1)

RECURSIVE AddRelated(_, _, _, _, _)
\* the loop over related_entities of one expanded entity; net and queue are
\* the network and entities_to_process so far
AddRelated(net, queue, entity, related, k) ==
    IF k > Len(related) THEN [net |-> net, queue |-> queue]
    ELSE LET rid == related[k]
         IN  IF rid \in DOMAIN net
             THEN AddRelated(net, queue, entity, related, k + 1)
             ELSE LET fresh  == [registry[rid] EXCEPT !.owns = <<>>, !.owned_by = <<>>,
                                                     !.ownership_depth = 0]
                      owning == _is_ownership_relationship(net[entity], fresh)
                      net2   == [id \in DOMAIN net \cup {rid} |->
                                   IF id = rid
                                   THEN (IF owning
                                         THEN [fresh EXCEPT !.owned_by = <<entity>>]
                                         ELSE fresh)
                                   ELSE IF id = entity /\ owning
                                        THEN [net[id] EXCEPT !.owns = Append(@, rid)]
                                        ELSE net[id]]
                  IN  AddRelated(net2, Append(queue, rid), entity, related, k + 1)

\* the while guard holds: copy the queue into the level and clear it
BeginLevel ==
    /\ pc = "build"
    /\ BuildLoopGuard
    /\ current_level_entities' = entities_to_process
    /\ entities_to_process' = <<>>
    /\ level_index' = 1
    /\ pc' = "build_level"
    /\ UNCHANGED <<network, root_entity, chains, analyzed_chains, registryVars, sessionVars, normVars, simVars, concVars, rateVars, apiVars,
                   max_depth, current_depth, processed_entities, build_log>>

\* build_log entries: the entity passed to _find_related_entities at the
\* depth, and the entities appended to entities_to_process for the next depth
Expanded(entity, depth) == [event |-> "expand", filing_id |-> entity, depth |-> depth]
Queued(ids, depth) ==
    [k \in 1..Len(ids) |-> [event |-> "queue", filing_id |-> ids[k], depth |-> depth]]

\* one iteration of: for entity in current_level_entities
ProcessEntity ==
    /\ pc = "build_level"
    /\ level_index <= Len(current_level_entities)
    /\ LET entity == current_level_entities[level_index]
       IN  IF entity \in processed_entities
           THEN UNCHANGED <<network, entities_to_process, processed_entities, build_log>>
           ELSE LET stamped == [network EXCEPT ![entity].ownership_depth = current_depth]
                    related == _find_related_entities(stamped[entity])
                    after   == AddRelated(stamped, entities_to_process, entity, related, 1)
                    added   == SubSeq(after.queue, Len(entities_to_process) + 1,
                                      Len(after.queue))
                IN  /\ processed_entities' = processed_entities \cup {entity}
                    /\ network' = after.net
                    /\ entities_to_process' = after.queue
                    /\ build_log' = build_log \o <<Expanded(entity, current_depth)>>
                                              \o Queued(added, current_depth + 1)
    /\ level_index' = level_index + 1
    /\ UNCHANGED <<pc, root_entity, chains, analyzed_chains, registryVars, sessionVars, normVars, simVars, concVars, rateVars, apiVars,
                   max_depth, current_depth, current_level_entities>>

\* the for loop is over: current_depth += 1
EndLevel ==
    /\ pc = "build_level"
    /\ level_index > Len(current_level_entities)
    /\ current_depth' = current_depth + 1
    /\ pc' = "build"
    /\ UNCHANGED <<network, root_entity, chains, analyzed_chains, registryVars, sessionVars, normVars, simVars, concVars, rateVars, apiVars,
                   max_depth, entities_to_process, current_level_entities,
                   level_index, processed_entities, build_log>>

\* the while guard fails: return network
ReturnNetwork ==
    /\ pc = "build"
    /\ ~BuildLoopGuard
    /\ pc' = "detect"
    /\ UNCHANGED <<network, root_entity, chains, analyzed_chains, registryVars, sessionVars, normVars, simVars, concVars, buildVars, rateVars, apiVars>>

-----------------------------------------------------------------------------
(* A registry with an officer search source                                 *)

NumRegistered == 3   \* entities the registry holds
MaxDepthArg == 3     \* largest max_depth handed to _build_ownership_network

OfficerLists ==
    { <<Officer(NameDoe, TitlePresident)>>,
      <<Officer(NameDoe, TitleSecretary)>>,
      <<Officer(NameDoe, TitleManager), Officer(NameRay, TitleSecretary)>>,
      <<Officer(NameRay, TitleSecretary)>>,
      <<Officer(NameRay, TitlePresident), Officer(NameDoe, TitleDirector)>> }

Registries ==
    {[id \in 1..NumRegistered |-> Entity(id, offs[id], id = 1, <<>>)] :
        offs \in [1..NumRegistered -> OfficerLists]}

OfficerNames(reg) ==
    UNION {{reg[id].officers[k].normalized_name : k \in 1..Len(reg[id].officers)} :
              id \in DOMAIN reg}

\* the officer search source listing every registered entity under the names
\* of its officers
FullOfficerIndex(reg) ==
    [name \in OfficerNames(reg) |->
        SetToSeq({id \in DOMAIN reg :
                     \E k \in 1..Len(reg[id].officers) :
                         reg[id].officers[k].normalized_name = name})]

\* root_entity has been found; _build_ownership_network(root_entity, max_depth)
BuildInit ==
    /\ pc = "build"
    /\ registry \in Registries
    /\ officer_index = FullOfficerIndex(registry)
    /\ network = [id \in {1} |-> registry[1]]
    /\ root_entity = 1
    /\ chains = <<>>
    /\ analyzed_chains = <<>>
    /\ max_depth \in 0..MaxDepthArg
    /\ current_depth = 0
    /\ entities_to_process = <<1>>
    /\ current_level_entities = <<>>
    /\ level_index = 0
    /\ processed_entities = {}
    /\ build_log = <<>>
    /\ RateIdle
    /\ ApiIdle
    /\ SessionIdle
    /\ NormIdle
    /\ SimIdle
    /\ ConcIdle

BuildNext ==
    \/ BeginLevel
    \/ ProcessEntity
    \/ EndLevel
    \/ ReturnNetwork
    \/ DetectOwnershipChains
    \/ AnalyzeNextChain
    \/ SortAndReturn

BuildSpec == BuildInit /\ [][BuildNext]_vars

-----------------------------------------------------------------------------
(* _rate_limit                                                              *)

NumLookups == 3   \* lookups of one session that wait on the rate limiter
MaxTime == 7      \* the clock stops here

Lookups == 1..NumLookups

\* trace_ownership_chain is not running
TraceIdle ==
    /\ pc = "idle"
    /\ network = <<>>
    /\ root_entity = 0
    /\ chains = <<>>
    /\ analyzed_chains = <<>>

\* sleep_time = self.request_delay - time_since_last
SleepTime_Elapsed(time_since_last) == time_since_last

SleepTime(time_since_last) == request_delay - time_since_last

InLimiter(t) == lookup[t].pc = "sleeping"

\* time passes
Tick ==
    /\ now < MaxTime
    /\ now' = now + 1
    /\ UNCHANGED <<traceVars, registryVars, sessionVars, normVars, simVars, concVars, buildVars, last_request_time, lookup,
                   completions, apiVars>>

\* a lookup calls _rate_limit: up to the await of asyncio.sleep, or to the
\* end when no sleep is needed
RateLimitEnter(t) ==
    /\ lookup[t].pc = "idle"
    /\ LET current_time    == now
           time_since_last == current_time - last_request_time
       IN  IF time_since_last < request_delay
           THEN /\ lookup' = [lookup EXCEPT ![t] =
                       [pc |-> "sleeping", wake |-> now + SleepTime(time_since_last)]]
                /\ UNCHANGED <<last_request_time, completions>>
           ELSE /\ last_request_time' = now
                /\ lookup' = [lookup EXCEPT ![t] = [pc |-> "dispatched", wake |-> 0]]
                /\ completions' = Append(completions,
                                         [lookup |-> t, time |-> now, slept |-> FALSE])
    /\ UNCHANGED <<traceVars, registryVars, sessionVars, normVars, simVars, concVars, buildVars, now, apiVars>>

\* asyncio.sleep is over: self.last_request_time = time.time(); the caller
\* sends its request
RateLimitWake(t) ==
    /\ lookup[t].pc = "sleeping"
    /\ now >= lookup[t].wake
    /\ last_request_time' = now
    /\ lookup' = [lookup EXCEPT ![t] = [pc |-> "dispatched", wake |-> 0]]
    /\ completions' = Append(completions, [lookup |-> t, time |-> now, slept |-> TRUE])
    /\ UNCHANGED <<traceVars, registryVars, sessionVars, normVars, simVars, concVars, buildVars, now, apiVars>>

\* the tracer as written awaits each lookup before it starts the next
SequentialEnter(t) ==
    /\ \A u \in Lookups : ~InLimiter(u)
    /\ RateLimitEnter(t)

RateInit ==
    /\ TraceIdle
    /\ RegistryIdle
    /\ BuildIdle
    /\ ApiIdle
    /\ SessionIdle
    /\ NormIdle
    /\ SimIdle
    /\ ConcIdle
    /\ now \in 0..(request_delay + 1)
    /\ last_request_time = 0
    /\ lookup = [t \in Lookups |-> [pc |-> "idle", wake |-> 0]]
    /\ completions = <<>>

\* one session, lookups one after the other
SeqRateNext ==
    \/ Tick
    \/ \E t \in Lookups : SequentialEnter(t)
    \/ \E t \in Lookups : RateLimitWake(t)

SeqRateSpec == RateInit /\ [][SeqRateNext]_vars

\* one session, lookups issued concurrently
ConcRateNext ==
    \/ Tick
    \/ \E t \in Lookups : RateLimitEnter(t)
    \/ \E t \in Lookups : RateLimitWake(t)

ConcRateSpec == RateInit /\ [][ConcRateNext]_vars

-----------------------------------------------------------------------------
(* POST /ownership-analysis                                                 *)

NumCalls == 2   \* HTTP calls

limiter_limit == 2             \* @limiter.limit("2/minute")
default_trace_max_depth == 5   \* trace_ownership_chain(entity_name, max_depth=5)

Calls == 1..NumCalls

\* (max_depth, similarity_threshold in hundredths) bodies, around the limits
RequestSamples ==
    {<<d, 85>> : d \in {0, 1, 5, 10, 11}} \cup {<<5, t>> : t \in {49, 50, 100, 101}}

NoCall ==
    [status |-> "none", max_depth |-> 0, similarity_threshold |-> 0,
     registry_requests |-> 0, trace_max_depth |-> 0]

\* OwnershipAnalysisRequest without the upper limit of max_depth
OwnershipAnalysisRequestValid_NoUpperLimit(c) ==
    /\ c.max_depth >= 1
    /\ c.similarity_threshold >= 50 /\ c.similarity_threshold <= 100

\* OwnershipAnalysisRequest: Field(ge=1, le=10), Field(ge=0.5, le=1.0) and
\* the two validators
OwnershipAnalysisRequestValid(c) ==
    /\ c.max_depth >= 1 /\ c.max_depth <= 10
    /\ c.similarity_threshold >= 50 /\ c.similarity_threshold <= 100

\* analyze_ownership: "Validate numeric parameters"
HandlerChecksPass(c) ==
    /\ ~(c.max_depth < 1 \/ c.max_depth > 10)
    /\ ~(c.similarity_threshold < 50 \/ c.similarity_threshold > 100)

\* a request body arrives
ReceiveCall(c, body) ==
    /\ calls[c].status = "none"
    /\ calls' = [calls EXCEPT ![c] =
            [NoCall EXCEPT !.status = "received", !.max_depth = body[1],
                           !.similarity_threshold = body[2]]]
    /\ UNCHANGED <<traceVars, registryVars, sessionVars, normVars, simVars, concVars, buildVars, rateVars, limiter_hits>>

\* FastAPI builds the OwnershipAnalysisRequest before it calls the endpoint:
\* a body that fails validation is answered 422
ValidateCall(c) ==
    /\ calls[c].status = "received"
    /\ calls' = [calls EXCEPT ![c].status =
            IF OwnershipAnalysisRequestValid(calls[c]) THEN "validated" ELSE "rejected"]
    /\ UNCHANGED <<traceVars, registryVars, sessionVars, normVars, simVars, concVars, buildVars, rateVars, limiter_hits>>

\* the limiter, then the body of analyze_ownership up to the call of
\* analyze_ownership_chains, which builds its own OwnershipTracer and calls
\* get_shell_company_report(entity_name)
StartAnalysis(c) ==
    /\ calls[c].status = "validated"
    /\ IF limiter_hits >= limiter_limit
       THEN /\ calls' = [calls EXCEPT ![c].status = "rate_limited"]
            /\ UNCHANGED limiter_hits
       ELSE /\ limiter_hits' = limiter_hits + 1
            /\ calls' = [calls EXCEPT ![c] =
                   IF HandlerChecksPass(calls[c])
                   THEN [@ EXCEPT !.status = "tracing",
                                  !.trace_max_depth = default_trace_max_depth]
                   ELSE [@ EXCEPT !.status = "rejected_in_handler"]]
    /\ UNCHANGED <<traceVars, registryVars, sessionVars, normVars, simVars, concVars, buildVars, rateVars>>

\* the tracer of the call sends a request to the registry: the search, then
\* the details
IssueRegistryRequest(c) ==
    /\ calls[c].status = "tracing"
    /\ calls[c].registry_requests < 2
    /\ calls' = [calls EXCEPT ![c].registry_requests = @ + 1]
    /\ UNCHANGED <<traceVars, registryVars, sessionVars, normVars, simVars, concVars, buildVars, rateVars, limiter_hits>>

\* the report is returned
Respond(c) ==
    /\ calls[c].status = "tracing"
    /\ calls[c].registry_requests >= 1
    /\ calls' = [calls EXCEPT ![c].status = "responded"]
    /\ UNCHANGED <<traceVars, registryVars, sessionVars, normVars, simVars, concVars, buildVars, rateVars, limiter_hits>>

\* the limiter's minute is over
WindowExpires ==
    /\ limiter_hits > 0
    /\ limiter_hits' = 0
    /\ UNCHANGED <<traceVars, registryVars, sessionVars, normVars, simVars, concVars, buildVars, rateVars, calls>>

ApiInit ==
    /\ TraceIdle
    /\ RegistryIdle
    /\ BuildIdle
    /\ RateIdle
    /\ calls = [c \in Calls |-> NoCall]
    /\ limiter_hits = 0
    /\ SessionIdle
    /\ NormIdle
    /\ SimIdle
    /\ ConcIdle

ApiNext ==
    \/ \E c \in Calls : \E body \in RequestSamples : ReceiveCall(c, body)
    \/ \E c \in Calls : ValidateCall(c)
    \/ \E c \in Calls : StartAnalysis(c)
    \/ \E c \in Calls : IssueRegistryRequest(c)
    \/ \E c \in Calls : Respond(c)
    \/ WindowExpires

ApiSpec == ApiInit /\ [][ApiNext]_vars

-----------------------------------------------------------------------------
(* get_shell_company_report                                                 *)

MaxReportChains == 2   \* chains of a trace result handed to the report

\* max(chain.risk_score for chain in ownership_chains)
MaxRiskScore(cs) ==
    CHOOSE m \in {cs[k].risk_score : k \in 1..Len(cs)} :
        \A k \in 1..Len(cs) : cs[k].risk_score <= m

\* max(chain.depth for chain in ownership_chains)
DeepestChainDepth(cs) ==
    CHOOSE d \in {cs[k].depth : k \in 1..Len(cs)} :
        \A k \in 1..Len(cs) : cs[k].depth <= d

RECURSIVE SumOver(_, _)
\* sum(f(chain) for chain in ownership_chains), f given as the list of values
SumOver(values, k) == IF k = 0 THEN 0 ELSE SumOver(values, k - 1) + values[k]

\* the risk level with strict comparisons
RiskLevel_StrictThresholds(max_risk_score) ==
    IF max_risk_score > 70 THEN "CRITICAL"
    ELSE IF max_risk_score > 50 THEN "HIGH"
    ELSE IF max_risk_score > 30 THEN "MEDIUM"
    ELSE "LOW"

\* the if / elif ladder on max_risk_score
RiskLevel(max_risk_score) ==
    IF max_risk_score >= 70 THEN "CRITICAL"
    ELSE IF max_risk_score >= 50 THEN "HIGH"
    ELSE IF max_risk_score >= 30 THEN "MEDIUM"
    ELSE "LOW"

\* a / b as the pair <<a, b>>
Quotient(a, b) == <<a, b>>

\* the report returned when trace_ownership_chain returned no chain
EmptyReport ==
    [ risk_assessment           |-> "LOW",
      shell_company_probability |-> Quotient(0, 1),
      ownership_chains          |-> <<>>,
      summary                   |-> "No complex ownership structures detected" ]

\* the report built from a non-empty list of analyzed chains
FullReport(cs) ==
    LET max_risk_score == MaxRiskScore(cs)
        risk_level     == RiskLevel(max_risk_score)
    IN  [ risk_assessment            |-> risk_level,
          shell_company_probability  |-> Quotient(max_risk_score, 100),
          ownership_chains_found     |-> Len(cs),
          deepest_chain_depth        |-> DeepestChainDepth(cs),
          total_shell_indicators     |->
              SumOver([k \in 1..Len(cs) |-> Len(cs[k].shell_indicators)], Len(cs)),
          total_obfuscation_patterns |->
              SumOver([k \in 1..Len(cs) |-> Len(cs[k].obfuscation_patterns)], Len(cs)),
          max_risk_score             |-> max_risk_score,
          avg_risk_score             |->
              Quotient(SumOver([k \in 1..Len(cs) |-> cs[k].risk_score], Len(cs)), Len(cs)),
          ownership_chains           |->
              [k \in 1..Len(cs) |->
                  [ chain_id             |-> k - 1,
                    depth                |-> cs[k].depth,
                    risk_score           |-> cs[k].risk_score,
                    entities             |-> cs[k].chain,
                    shell_indicators     |-> cs[k].shell_indicators,
                    obfuscation_patterns |-> cs[k].obfuscation_patterns ]],
          summary                    |->
              CASE risk_level = "CRITICAL" -> "CRITICAL"
                [] risk_level = "HIGH"     -> "HIGH RISK"
                [] risk_level = "MEDIUM"   -> "MEDIUM RISK"
                [] OTHER                   -> "LOW RISK" ]

\* get_shell_company_report, after trace_ownership_chain returned
GenerateReport ==
    /\ pc = "returned"
    /\ report' = IF analyzed_chains = <<>> THEN EmptyReport
                 ELSE FullReport(analyzed_chains)
    /\ pc' = "reported"
    /\ UNCHANGED <<network, root_entity, chains, analyzed_chains, registryVars,
                   entity_cache, requests, failed_lookups, details_calls, traffic, normVars, simVars, concVars,
                   buildVars,
                   rateVars, apiVars>>

\* the scores the scorer can give: sums of 10, 15, 20, 25, 40 and 50, clamped
ScoreSamples == {s \in 0..100 : s % 5 = 0 /\ s # 5}

\* an analyzed chain of two entities carrying the given score
SampleChain(score) ==
    [ root_entity          |-> 1,
      chain                |-> <<1, 2>>,
      depth                |-> 2,
      shell_indicators     |-> <<>>,
      risk_score           |-> score,
      obfuscation_patterns |-> <<>> ]

\* trace results: up to MaxReportChains chains, highest score first
TraceResults ==
    UNION {{[k \in 1..n |-> SampleChain(scores[k])] :
               scores \in {f \in [1..n -> ScoreSamples] :
                              \A k \in 1..(n - 1) : f[k] >= f[k + 1]}} :
              n \in 0..MaxReportChains}

\* trace_ownership_chain has returned its list to get_shell_company_report
ReportInit ==
    /\ pc = "returned"
    /\ network = EntityPool
    /\ root_entity = 1
    /\ analyzed_chains \in TraceResults
    /\ chains = [k \in 1..Len(analyzed_chains) |-> analyzed_chains[k].chain]
    /\ RegistryIdle
    /\ BuildIdle
    /\ RateIdle
    /\ ApiIdle
    /\ SessionIdle
    /\ NormIdle
    /\ SimIdle
    /\ ConcIdle

ReportNext == GenerateReport

ReportSpec == ReportInit /\ [][ReportNext]_vars

-----------------------------------------------------------------------------
(* get_shell_company_report from the root search on                         *)

\* how the registry can answer the search request
SearchResponses ==
    {"match", "no_match", "status_429", "status_error", "client_error", "timeout"}

\* how the registry can answer the details request; "unparsable" is a 200
\* page in which none of the patterns is found
DetailsResponses == {"entity", "unparsable", "status_error", "client_error", "timeout"}

\* what _parse_sunbiz_entity_details makes of a page without any of the
\* fields: no officers, date_filed = datetime.now()
UnknownEntity(filing_id) == Entity(filing_id, <<>>, TRUE, <<>>)

\* a failed root search raised to the caller instead of returning []
ReturnNoChains_Raises ==
    /\ pc' = "raised"
    /\ analyzed_chains' = <<>>

\* trace_ownership_chain returns [] at "if not root_entity"
ReturnNoChains ==
    /\ pc' = "returned"
    /\ analyzed_chains' = <<>>

\* traffic entries: "await self._rate_limit()" returned, and
\* "self.session.get(...)" was sent, inside the search or the details
\* operation for the key
RateLimitWait(op, key) == [event |-> "rate_limit", op |-> op, key |-> key]
HttpRequest(op, key) == [event |-> "request", op |-> op, key |-> key]

\* a 429 answered by searching again
SearchRootEntity_RetryOn429(entity_name, response) ==
    /\ pc = "search"
    /\ IF entity_name = <<>>
       THEN /\ ReturnNoChains
            /\ UNCHANGED <<root_entity, requests, failed_lookups, traffic>>
       ELSE /\ requests' = Append(requests, [kind |-> "search", key |-> entity_name])
            /\ traffic' = traffic \o <<RateLimitWait("search", entity_name),
                                       HttpRequest("search", entity_name)>>
            /\ IF response = "match"
               THEN /\ pc' = "details"
                    /\ root_entity' = 1
                    /\ UNCHANGED <<analyzed_chains, failed_lookups>>
               ELSE IF response = "status_429"
               THEN UNCHANGED <<pc, root_entity, analyzed_chains, failed_lookups>>
               ELSE /\ ReturnNoChains
                    /\ failed_lookups' = Append(failed_lookups,
                           [lookup |-> "search", entity |-> 0, kind |-> response,
                            known |-> DOMAIN network])
                    /\ UNCHANGED root_entity
    /\ UNCHANGED <<network, chains, registryVars, buildVars, rateVars, apiVars,
                   entity_cache, details_calls, report, normVars, simVars, concVars>>

\* _search_sunbiz_entity up to the parsed search results
SearchRootEntity(entity_name, response) ==
    /\ pc = "search"
    /\ IF entity_name = <<>>
       THEN \* empty name: None without a request
            /\ ReturnNoChains
            /\ UNCHANGED <<root_entity, requests, failed_lookups, traffic>>
       ELSE /\ requests' = Append(requests, [kind |-> "search", key |-> entity_name])
            /\ traffic' = traffic \o <<RateLimitWait("search", entity_name),
                                       HttpRequest("search", entity_name)>>
            /\ IF response = "match"
               THEN /\ pc' = "details"
                    /\ root_entity' = 1
                    /\ UNCHANGED <<analyzed_chains, failed_lookups>>
               ELSE /\ ReturnNoChains
                    /\ failed_lookups' = Append(failed_lookups,
                           [lookup |-> "search", entity |-> 0, kind |-> response,
                            known |-> DOMAIN network])
                    /\ UNCHANGED root_entity
    /\ UNCHANGED <<network, chains, registryVars, buildVars, rateVars, apiVars,
                   entity_cache, details_calls, report, normVars, simVars, concVars>>

\* locals of _build_ownership_network(root_entity, max_depth) at its start
StartBuildFrom(entity) ==
    /\ network' = [id \in {entity.filing_id} |-> entity]
    /\ entities_to_process' = <<entity.filing_id>>
    /\ processed_entities' = {}
    /\ current_depth' = 0
    /\ pc' = "build"

\* _get_sunbiz_entity_details without the cache test: every call fetches
_get_sunbiz_entity_details_AlwaysFetch(cache, filing_id, response) ==
    IF response \in {"entity", "unparsable"}
    THEN LET entity == IF response = "entity" THEN registry[filing_id]
                       ELSE UnknownEntity(filing_id)
         IN  [ result    |-> <<entity>>,
               waited    |-> TRUE,
               requested |-> TRUE,
               cache     |-> [id \in DOMAIN cache \cup {filing_id} |->
                                 IF id = filing_id THEN entity ELSE cache[id]] ]
    ELSE [result |-> <<>>, waited |-> TRUE, requested |-> TRUE, cache |-> cache]

\* _get_sunbiz_entity_details with the rate limiter awaited ahead of the
\* cache test
_get_sunbiz_entity_details_WaitsFirst(cache, filing_id, response) ==
    IF filing_id \in DOMAIN cache
    THEN [result |-> <<cache[filing_id]>>, waited |-> TRUE, requested |-> FALSE,
          cache |-> cache]
    ELSE _get_sunbiz_entity_details_AlwaysFetch(cache, filing_id, response)

\* _get_sunbiz_entity_details(filing_id) on the given entity_cache and with
\* the given answer of the registry: what it returns (<<>> for None), whether
\* it waited on the rate limiter, whether it sent a request, and the
\* entity_cache it leaves
_get_sunbiz_entity_details(cache, filing_id, response) ==
    IF filing_id \in DOMAIN cache
    THEN [result |-> <<cache[filing_id]>>, waited |-> FALSE, requested |-> FALSE,
          cache |-> cache]
    ELSE IF response \in {"entity", "unparsable"}
         THEN LET entity == IF response = "entity" THEN registry[filing_id]
                            ELSE UnknownEntity(filing_id)
              IN  [ result    |-> <<entity>>,
                    waited    |-> TRUE,
                    requested |-> TRUE,
                    cache     |-> [id \in DOMAIN cache \cup {filing_id} |->
                                      IF id = filing_id THEN entity ELSE cache[id]] ]
         ELSE [result |-> <<>>, waited |-> TRUE, requested |-> TRUE, cache |-> cache]

\* the effect of one _get_sunbiz_entity_details call on the session
DetailsCallEffect(filing_id, response, call) ==
    /\ entity_cache' = call.cache
    /\ requests' = IF call.requested
                   THEN Append(requests, [kind |-> "details", key |-> filing_id])
                   ELSE requests
    /\ traffic' = traffic
                   \o (IF call.waited THEN <<RateLimitWait("details", filing_id)>> ELSE <<>>)
                   \o (IF call.requested THEN <<HttpRequest("details", filing_id)>> ELSE <<>>)
    /\ details_calls' = Append(details_calls,
           [ filing_id    |-> filing_id,
             result       |-> call.result,
             requested    |-> call.requested,
             cache_before |-> entity_cache,
             cache_after  |-> call.cache ])
    /\ failed_lookups' =
           IF call.result = <<>>
           THEN Append(failed_lookups,
                    [lookup |-> "details", entity |-> filing_id, kind |-> response,
                     known |-> DOMAIN network])
           ELSE failed_lookups

\* _get_sunbiz_entity_details(filing_id) for the root, and the return of
\* _search_sunbiz_entity to trace_ownership_chain
FetchRootDetails(response) ==
    /\ pc = "details"
    /\ LET call == _get_sunbiz_entity_details(entity_cache, root_entity, response)
       IN  /\ DetailsCallEffect(root_entity, response, call)
           /\ IF call.result # <<>>
              THEN /\ StartBuildFrom(call.result[1])
                   /\ UNCHANGED analyzed_chains
              ELSE /\ ReturnNoChains
                   /\ UNCHANGED <<network, entities_to_process, processed_entities,
                                  current_depth>>
    /\ UNCHANGED <<root_entity, chains, registryVars, max_depth, current_level_entities,
                   level_index, build_log, rateVars, apiVars, report, normVars, simVars, concVars>>

\* a failed officer search raised out of _build_ownership_network
ProcessEntityLookupFails_AbortsBuild ==
    /\ pc = "build_level"
    /\ level_index <= Len(current_level_entities)
    /\ current_level_entities[level_index] \notin processed_entities
    /\ network[current_level_entities[level_index]].officers # <<>>
    /\ pc' = "raised"
    /\ UNCHANGED <<network, root_entity, chains, analyzed_chains, registryVars, rateVars,
                   apiVars, buildVars, sessionVars, normVars, simVars, concVars>>

\* one iteration of the for loop in which the officer search of the entity
\* gives nothing back, as the shipped _search_entities_by_officer does
ProcessEntityLookupFails ==
    /\ pc = "build_level"
    /\ level_index <= Len(current_level_entities)
    /\ LET entity == current_level_entities[level_index]
       IN  /\ entity \notin processed_entities
           /\ network[entity].officers # <<>>
           /\ processed_entities' = processed_entities \cup {entity}
           /\ network' = [network EXCEPT ![entity].ownership_depth = current_depth]
           /\ build_log' = Append(build_log, Expanded(entity, current_depth))
           /\ failed_lookups' = Append(failed_lookups,
                  [lookup |-> "officer_search", entity |-> entity, kind |-> "no_result",
                            known |-> DOMAIN network])
    /\ level_index' = level_index + 1
    /\ UNCHANGED <<pc, root_entity, chains, analyzed_chains, registryVars, rateVars, apiVars,
                   max_depth, current_depth, current_level_entities, entities_to_process,
                   entity_cache, requests, details_calls, report, traffic, normVars, simVars, concVars>>

\* get_shell_company_report(entity_name) on a fresh tracer
TraceInit ==
    /\ pc = "search"
    /\ network = <<>>
    /\ root_entity = 0
    /\ chains = <<>>
    /\ analyzed_chains = <<>>
    /\ registry \in Registries
    /\ officer_index = FullOfficerIndex(registry)
    /\ max_depth = default_trace_max_depth
    /\ current_depth = 0
    /\ entities_to_process = <<>>
    /\ current_level_entities = <<>>
    /\ level_index = 0
    /\ processed_entities = {}
    /\ build_log = <<>>
    /\ RateIdle
    /\ ApiIdle
    /\ SessionIdle
    /\ NormIdle
    /\ SimIdle
    /\ ConcIdle

TraceNext ==
    \/ \E entity_name \in {<<>>, <<"a", "c", "m", "e">>} : \E response \in SearchResponses :
          SearchRootEntity(entity_name, response)
    \/ \E response \in DetailsResponses : FetchRootDetails(response)
    \/ BeginLevel
    \/ ProcessEntity
    \/ ProcessEntityLookupFails
    \/ EndLevel
    \/ ReturnNetwork
    \/ DetectOwnershipChains
    \/ AnalyzeNextChain
    \/ SortAndReturn
    \/ GenerateReport

TraceSpec == TraceInit /\ [][TraceNext]_vars

-----------------------------------------------------------------------------
(* trace_ownership_chain to its return, for any max_depth                   *)

\* trace_ownership_chain(entity_name, max_depth) on a fresh tracer, or its
\* chain walk on an owns graph of any shape
TerminationInit ==
    \/ /\ pc = "search"
       /\ network = <<>>
       /\ root_entity = 0
       /\ chains = <<>>
       /\ analyzed_chains = <<>>
       /\ registry \in Registries
       /\ officer_index = FullOfficerIndex(registry)
       /\ max_depth \in 0..MaxDepthArg
       /\ current_depth = 0
       /\ entities_to_process = <<>>
       /\ current_level_entities = <<>>
       /\ level_index = 0
       /\ processed_entities = {}
       /\ build_log = <<>>
       /\ RateIdle
       /\ ApiIdle
       /\ SessionIdle
       /\ NormIdle
       /\ SimIdle
       /\ ConcIdle
    \/ DetectInit

TerminationSpec == TerminationInit /\ [][TraceNext]_vars

-----------------------------------------------------------------------------
(* entity_cache over the lookups of one tracer session                      *)

MaxDetailsCalls == 3   \* _get_sunbiz_entity_details calls of one session

\* the registry the session fetches from
LookupRegistry ==
    [id \in 1..NumRegistered |-> Entity(id, <<Officer(NameDoe, TitlePresident)>>, id = 1, <<>>)]

\* one _get_sunbiz_entity_details(filing_id) call, from its cache test to
\* its return
GetEntityDetails(filing_id, response) ==
    /\ pc = "idle"
    /\ Len(details_calls) < MaxDetailsCalls
    /\ DetailsCallEffect(filing_id, response,
                         _get_sunbiz_entity_details(entity_cache, filing_id, response))
    /\ UNCHANGED <<traceVars, registryVars, buildVars, rateVars, apiVars, report, normVars, simVars, concVars>>

\* a fresh tracer inside "async with OwnershipTracer() as tracer"
LookupInit ==
    /\ TraceIdle
    /\ registry = LookupRegistry
    /\ officer_index = <<>>
    /\ BuildIdle
    /\ RateIdle
    /\ ApiIdle
    /\ SessionIdle
    /\ NormIdle
    /\ SimIdle
    /\ ConcIdle

LookupNext ==
    \E filing_id \in DOMAIN registry : \E response \in DetailsResponses :
        GetEntityDetails(filing_id, response)

LookupSpec == LookupInit /\ [][LookupNext]_vars

-----------------------------------------------------------------------------
(* Officer._normalize_name and Officer._normalize_address                   *)

MaxTextLen == 5   \* characters of a name or an address

Digits == {"0", "1", "2", "3", "4", "5", "6", "7", "8", "9"}

\* \w and \s of the regular expressions
IsWordChar(ch) == ch \in Range(LowerCase) \cup Range(UpperCase) \cup Digits \cup {"_"}
IsSpace(ch) == ch \in {" ", "\t", "\n"}

\* s continues with the characters of word from position i on
StartsWithAt(s, i, word) ==
    /\ i + Len(word) - 1 <= Len(s)
    /\ \A k \in 1..Len(word) : s[i + k - 1] = word[k]

\* ch belongs to the character class: \s, \w, or anything but \s
InClass(class, ch) ==
    CASE class = "space" -> IsSpace(ch)
      [] class = "word"  -> IsWordChar(ch)
      [] OTHER           -> ~IsSpace(ch)

\* length of the longest run of characters of the class from position i
RECURSIVE RunOf(_, _, _)
RunOf(class, s, i) ==
    IF i <= Len(s) /\ InClass(class, s[i]) THEN 1 + RunOf(class, s, i + 1) ELSE 0

\* \b just before position i (i = Len(s) + 1 is the end of the string)
WordBoundaryAt(s, i) ==
    LET before == i > 1 /\ IsWordChar(s[i - 1])
        after  == i <= Len(s) /\ IsWordChar(s[i])
    IN  before # after

\* (mr|mrs|ms|dr|prof|jr|sr|ii|iii|iv)
name_titles ==
    { <<"m", "r">>, <<"m", "r", "s">>, <<"m", "s">>, <<"d", "r">>,
      <<"p", "r", "o", "f">>, <<"j", "r">>, <<"s", "r">>, <<"i", "i">>,
      <<"i", "i", "i">>, <<"i", "v">> }

\* length of the match of \b(mr|...|iv)\b\.? at position i, 0 if none
TitleMatchAt(s, i) ==
    IF \E t \in name_titles :
          /\ WordBoundaryAt(s, i)
          /\ StartsWithAt(s, i, t)
          /\ WordBoundaryAt(s, i + Len(t))
    THEN LET t == CHOOSE t \in name_titles :
                      /\ StartsWithAt(s, i, t)
                      /\ WordBoundaryAt(s, i + Len(t))
             j == i + Len(t)
         IN  Len(t) + (IF j <= Len(s) /\ s[j] = "." THEN 1 ELSE 0)
    ELSE 0

\* (apt|suite|ste|unit|#)
unit_markers ==
    { <<"a", "p", "t">>, <<"s", "u", "i", "t", "e">>, <<"s", "t", "e">>,
      <<"u", "n", "i", "t">>, <<"#">> }

\* length of the match of \b(apt|suite|ste|unit|#)\s*\w+\b at position i
UnitMatchAt(s, i) ==
    IF \E u \in unit_markers : WordBoundaryAt(s, i) /\ StartsWithAt(s, i, u)
    THEN LET u      == CHOOSE u \in unit_markers : StartsWithAt(s, i, u)
             spaces == RunOf("space", s, i + Len(u))
             word   == RunOf("word", s, i + Len(u) + spaces)
         IN  IF word > 0 THEN Len(u) + spaces + word ELSE 0
    ELSE 0

\* length of the match of the pattern at position i, 0 if none
MatchAt(pattern, s, i) ==
    IF pattern = "title" THEN TitleMatchAt(s, i) ELSE UnitMatchAt(s, i)

\* re.sub(pattern, '', s): the matches, found left to right, are dropped
RECURSIVE RemoveMatches(_, _, _)
RemoveMatches(pattern, s, i) ==
    IF i > Len(s) THEN <<>>
    ELSE LET n == MatchAt(pattern, s, i)
         IN  IF n > 0 THEN RemoveMatches(pattern, s, i + n)
             ELSE <<s[i]>> \o RemoveMatches(pattern, s, i + 1)

\* ' '.join(s.split()): runs of whitespace become one blank, none at the ends
RECURSIVE JoinSplit(_, _)
JoinSplit(s, i) ==
    IF i > Len(s) THEN <<>>
    ELSE IF IsSpace(s[i]) THEN JoinSplit(s, i + 1)
    ELSE LET n    == RunOf("nonspace", s, i)
             rest == JoinSplit(s, i + n)
         IN  SubSeq(s, i, i + n - 1) \o (IF rest = <<>> THEN <<>> ELSE <<" ">> \o rest)

_normalize_name(name) ==
    LET stripped == RemoveMatches("title", LowerStr(name), 1)
        kept     == SelectSeq(stripped, LAMBDA ch : IsWordChar(ch) \/ IsSpace(ch))
    IN  JoinSplit(kept, 1)

_normalize_address(address) ==
    LET stripped == RemoveMatches("unit", LowerStr(address), 1)
        spaced   == [k \in 1..Len(stripped) |->
                        IF IsWordChar(stripped[k]) \/ IsSpace(stripped[k])
                        THEN stripped[k] ELSE " "]
    IN  JoinSplit(spaced, 1)

\* the strings an officer is constructed from
NameAlphabet == {"J", "r", ".", " "}
AddressAlphabet == {"a", "p", "t", ".", " "}

TextsOver(alphabet) == UNION {[1..n -> alphabet] : n \in 0..MaxTextLen}

\* the normalization of the given kind
Normalize(kind, text) ==
    IF kind = "name" THEN _normalize_name(text) ELSE _normalize_address(text)

\* Officer(name, title, address) is about to run __post_init__ on one field
NormInit ==
    /\ \E kind \in {"name", "address"} :
       \E text \in TextsOver(IF kind = "name" THEN NameAlphabet ELSE AddressAlphabet) :
          normalization = [kind |-> kind, input |-> text, applied |-> 0,
                           once |-> <<>>, twice |-> <<>>]
    /\ TraceIdle
    /\ RegistryIdle
    /\ BuildIdle
    /\ RateIdle
    /\ ApiIdle
    /\ SessionIdle
    /\ SimIdle
    /\ ConcIdle

\* self.normalized_name = self._normalize_name(self.name), or the address
NormalizeField ==
    /\ normalization.applied = 0
    /\ normalization' = [normalization EXCEPT
           !.applied = 1,
           !.once = Normalize(normalization.kind, normalization.input)]
    /\ UNCHANGED <<traceVars, registryVars, buildVars, rateVars, apiVars, sessionVars,
                   simVars, concVars>>

\* the same function applied to the string it returned
NormalizeAgain ==
    /\ normalization.applied = 1
    /\ normalization' = [normalization EXCEPT
           !.applied = 2,
           !.twice = Normalize(normalization.kind, normalization.once)]
    /\ UNCHANGED <<traceVars, registryVars, buildVars, rateVars, apiVars, sessionVars,
                   simVars, concVars>>

NormNext == NormalizeField \/ NormalizeAgain

NormSpec == NormInit /\ [][NormNext]_vars

-----------------------------------------------------------------------------
(* _calculate_similarity on arbitrary pairs of strings                      *)

MaxSimLen == 3   \* characters of a compared string

SimAlphabet == {"a", "B", "c"}

SimTexts == UNION {[1..n -> SimAlphabet] : n \in 0..MaxSimLen}

\* two officer names are about to be compared
SimInit ==
    /\ \E text1 \in SimTexts : \E text2 \in SimTexts :
          comparison = [text1 |-> text1, text2 |-> text2, calculated |-> FALSE,
                        forward |-> <<0, 1>>, backward |-> <<0, 1>>,
                        same |-> <<0, 1>>]
    /\ TraceIdle
    /\ RegistryIdle
    /\ BuildIdle
    /\ RateIdle
    /\ ApiIdle
    /\ SessionIdle
    /\ NormIdle
    /\ ConcIdle

\* _calculate_similarity(text1, text2), _calculate_similarity(text2, text1)
\* and _calculate_similarity(text1, text1)
CalculateSimilarity ==
    /\ ~comparison.calculated
    /\ comparison' = [comparison EXCEPT
           !.calculated = TRUE,
           !.forward  = _calculate_similarity(comparison.text1, comparison.text2),
           !.backward = _calculate_similarity(comparison.text2, comparison.text1),
           !.same     = _calculate_similarity(comparison.text1, comparison.text1)]
    /\ UNCHANGED <<traceVars, registryVars, buildVars, rateVars, apiVars, sessionVars,
                   normVars, concVars>>

SimNext == CalculateSimilarity

SimSpec == SimInit /\ [][SimNext]_vars

-----------------------------------------------------------------------------
(* POST /ownership-analysis down to the network built for the request       *)

MaxRequestDepth == 2   \* largest max_depth of a request body

\* (max_depth, similarity_threshold in hundredths) bodies
RequestBodies == {<<d, 85>> : d \in 0..MaxRequestDepth}

\* analyze_ownership_chains(sanitized_name): get_shell_company_report calls
\* trace_ownership_chain(entity_name), whose max_depth is the one the call
\* was started with; the root is found and _build_ownership_network starts
TraceForCall(c) ==
    /\ calls[c].status = "tracing"
    /\ pc = "idle"
    /\ root_entity' = 1
    /\ max_depth' = calls[c].trace_max_depth
    /\ StartBuildFrom(registry[1])
    /\ UNCHANGED <<chains, analyzed_chains, registryVars, current_level_entities,
                   level_index, build_log, rateVars, apiVars, sessionVars, normVars,
                   simVars, concVars>>

\* a registry with an officer search source, and no call yet
RequestInit ==
    /\ TraceIdle
    /\ registry \in Registries
    /\ officer_index = FullOfficerIndex(registry)
    /\ BuildIdle
    /\ RateIdle
    /\ calls = [c \in {1} |-> NoCall]
    /\ limiter_hits = 0
    /\ SessionIdle
    /\ NormIdle
    /\ SimIdle
    /\ ConcIdle

RequestNext ==
    \/ \E body \in RequestBodies : ReceiveCall(1, body)
    \/ ValidateCall(1)
    \/ StartAnalysis(1)
    \/ TraceForCall(1)
    \/ BeginLevel
    \/ ProcessEntity
    \/ EndLevel
    \/ ReturnNetwork
    \/ DetectOwnershipChains
    \/ AnalyzeNextChain
    \/ SortAndReturn
    \/ GenerateReport

RequestSpec == RequestInit /\ [][RequestNext]_vars

-----------------------------------------------------------------------------
(* get_shell_company_report with the officer search as shipped              *)

\* _search_entities_by_officer as it is in the source returns [] for every
\* name: the officer_index with no entry.  The other start has a data source
\* plugged in.
ShippedInit ==
    /\ pc = "search"
    /\ network = <<>>
    /\ root_entity = 0
    /\ chains = <<>>
    /\ analyzed_chains = <<>>
    /\ registry \in Registries
    /\ \/ officer_index = <<>>
       \/ officer_index = FullOfficerIndex(registry)
    /\ max_depth = default_trace_max_depth
    /\ current_depth = 0
    /\ entities_to_process = <<>>
    /\ current_level_entities = <<>>
    /\ level_index = 0
    /\ processed_entities = {}
    /\ build_log = <<>>
    /\ RateIdle
    /\ ApiIdle
    /\ SessionIdle
    /\ NormIdle
    /\ SimIdle
    /\ ConcIdle

ShippedSpec == ShippedInit /\ [][TraceNext]_vars

-----------------------------------------------------------------------------
(* _search_sunbiz_entity called several times on one tracer                 *)

MaxSessionRequests == 3   \* HTTP requests after which the tracer is not asked again

\* _search_sunbiz_entity has returned (None, or the root entity handed to
\* _build_ownership_network) and is called again on the same tracer: session,
\* entity_cache and last_request_time are the tracer's, the rest is local to
\* the call
SearchAgain ==
    /\ pc \in {"build", "returned"}
    /\ Len(requests) < MaxSessionRequests
    /\ pc' = "search"
    /\ network' = <<>>
    /\ root_entity' = 0
    /\ analyzed_chains' = <<>>
    /\ entities_to_process' = <<>>
    /\ processed_entities' = {}
    /\ current_depth' = 0
    /\ UNCHANGED <<chains, registryVars, max_depth, current_level_entities, level_index,
                   build_log, rateVars, apiVars, sessionVars, normVars, simVars, concVars>>

SearchSessionNext ==
    \/ \E entity_name \in {<<>>, <<"a", "c", "m", "e">>} : \E response \in SearchResponses :
          SearchRootEntity(entity_name, response)
    \/ \E response \in DetailsResponses : FetchRootDetails(response)
    \/ SearchAgain

SearchSessionSpec == TraceInit /\ [][SearchSessionNext]_vars

-----------------------------------------------------------------------------
(* analyze_ownership_chains called by requests that run concurrently        *)

NumSessions == 2         \* analyze_ownership_chains calls in flight together
MaxSessionLookups == 2   \* registry lookups of one call

\* OwnershipTracer.__init__: a new object with an empty entity_cache and
\* last_request_time 0
NewTracer(s) == [constructed_by |-> s, entity_cache |-> <<>>, last_request_time |-> 0]

\* one read or write of an attribute of a tracer object by a session
Access(s, tracer, mode, attribute) ==
    [session |-> s, tracer |-> tracer, mode |-> mode, attribute |-> attribute]

\* time.time() read by _rate_limit of a tracer: later than the reading the
\* tracer took before
Clock(tracer) == tracer.last_request_time + 1

\* the filing_ids the calls look up
SessionFilingIds == {1, 2}

\* a single tracer kept at module level and handed to every call
ConstructTracer_Shared(s) ==
    /\ sessions[s].pc = "called"
    /\ tracers' = IF tracers = <<>> THEN <<NewTracer(s)>> ELSE tracers
    /\ sessions' = [sessions EXCEPT ![s] = [pc |-> "entered", tracer |-> 1, lookups |-> 0]]
    /\ UNCHANGED <<accesses, traceVars, registryVars, buildVars, rateVars, apiVars,
                   sessionVars, normVars, simVars>>

\* "async with OwnershipTracer() as tracer": the call constructs a tracer of
\* its own and enters it
ConstructTracer(s) ==
    /\ sessions[s].pc = "called"
    /\ tracers' = Append(tracers, NewTracer(s))
    /\ sessions' = [sessions EXCEPT ![s] = [pc |-> "entered", tracer |-> Len(tracers) + 1,
                                            lookups |-> 0]]
    /\ UNCHANGED <<accesses, traceVars, registryVars, buildVars, rateVars, apiVars,
                   sessionVars, normVars, simVars>>

\* one _get_sunbiz_entity_details(filing_id) of the call, on self: the cache
\* test, then on a miss _rate_limit (last_request_time read and written) and,
\* when the page parsed, the cache write
SessionLookup(s, filing_id, response) ==
    /\ sessions[s].pc = "entered"
    /\ sessions[s].lookups < MaxSessionLookups
    /\ LET self == sessions[s].tracer
           call == _get_sunbiz_entity_details(tracers[self].entity_cache, filing_id, response)
       IN  /\ tracers' = [tracers EXCEPT
                  ![self].entity_cache = call.cache,
                  ![self].last_request_time = IF call.waited THEN Clock(tracers[self]) ELSE @]
           /\ accesses' = accesses
                  \cup {Access(s, self, "read", "entity_cache")}
                  \cup (IF call.waited
                        THEN {Access(s, self, "read", "last_request_time"),
                              Access(s, self, "write", "last_request_time")}
                        ELSE {})
                  \cup (IF call.cache # tracers[self].entity_cache
                        THEN {Access(s, self, "write", "entity_cache")}
                        ELSE {})
    /\ sessions' = [sessions EXCEPT ![s].lookups = @ + 1]
    /\ UNCHANGED <<traceVars, registryVars, buildVars, rateVars, apiVars, sessionVars,
                   normVars, simVars>>

\* __aexit__ and the return of the report
SessionReturn(s) ==
    /\ sessions[s].pc = "entered"
    /\ sessions' = [sessions EXCEPT ![s].pc = "returned"]
    /\ UNCHANGED <<tracers, accesses, traceVars, registryVars, buildVars, rateVars, apiVars,
                   sessionVars, normVars, simVars>>

ConcSessionInit ==
    /\ TraceIdle
    /\ registry = LookupRegistry
    /\ officer_index = <<>>
    /\ BuildIdle
    /\ RateIdle
    /\ ApiIdle
    /\ SessionIdle
    /\ NormIdle
    /\ SimIdle
    /\ tracers = <<>>
    /\ sessions = [s \in 1..NumSessions |-> [pc |-> "called", tracer |-> 0, lookups |-> 0]]
    /\ accesses = {}

ConcSessionNext ==
    \E s \in 1..NumSessions :
        \/ ConstructTracer(s)
        \/ \E filing_id \in SessionFilingIds : \E response \in {"entity", "timeout"} :
              SessionLookup(s, filing_id, response)
        \/ SessionReturn(s)

ConcSessionSpec == ConcSessionInit /\ [][ConcSessionNext]_vars

-----------------------------------------------------------------------------
(* Graph notions used to state the properties                               *)

OwnsSet(net, id) == Range(net[id].owns)

\* every simple path (no entity twice) along owns edges that starts at root
RECURSIVE GrowPaths(_, _, _)
GrowPaths(net, frontier, acc) ==
    IF frontier = {} THEN acc
    ELSE GrowPaths(net,
                   UNION {{Append(p, v) : v \in OwnsSet(net, p[Len(p)]) \ Range(p)} :
                             p \in frontier},
                   acc \cup frontier)

SimplePathsFrom(net, root) == GrowPaths(net, {<<root>>}, {})

\* simple paths from the root that end at an entity owning nothing
RootToTerminalPaths(net, root) ==
    {p \in SimplePathsFrom(net, root) : net[p[Len(p)]].owns = <<>>}

\* <<p, e>>: the last entity of the simple path p owns e, which is already on p
CycleClosings(net, root) ==
    UNION {{<<p, e>> : e \in OwnsSet(net, p[Len(p)]) \cap Range(p)} :
              p \in SimplePathsFrom(net, root)}

NoRepeat(s) == Len(s) = Cardinality(Range(s))

FlaggedCircular(c) == "Circular ownership detected" \in Range(c.obfuscation_patterns)

Extracted == pc # "detect"

\* _build_ownership_network is not running
Built == pc \notin {"build", "build_level"}

-----------------------------------------------------------------------------
(* Properties of the chain extractor and the scorer                         *)

\* C1: whenever a path from the root runs back into an entity already on it
\* (within the depth ceiling), the trace returns that path closed by the
\* repeated entity, flagged "Circular ownership detected" and scored with the
\* +50 of the circular pattern.
C1_CycleEmittedAsCircularChain ==
    pc = "returned" =>
        \A pe \in CycleClosings(network, root_entity) :
            Len(pe[1]) < max_chain_depth =>
                \E k \in 1..Len(analyzed_chains) :
                    /\ analyzed_chains[k].chain = Append(pe[1], pe[2])
                    /\ FlaggedCircular(analyzed_chains[k])
                    /\ analyzed_chains[k].risk_score >= 50

\* C2: every chain emitted by _detect_ownership_chains has at most
\* max_chain_depth entities.
C2_ChainLengthAtMostMaxChainDepth ==
    Extracted => \A k \in 1..Len(chains) : Len(chains[k]) <= max_chain_depth

\* C3: the risk_score of every analyzed chain lies in [0, 100].
C3_RiskScoreInRange ==
    \A k \in 1..Len(analyzed_chains) :
        /\ analyzed_chains[k].risk_score >= 0
        /\ analyzed_chains[k].risk_score <= 100

\* C3 witness: a chain with repeated filing_ids whose contributions sum to
\* more than 100 has been analyzed.
C3_Witness ==
    \E k \in 1..Len(analyzed_chains) :
        /\ RawRiskScore(network, analyzed_chains[k].chain) > 100
        /\ ~NoRepeat(analyzed_chains[k].chain)
        /\ analyzed_chains[k].risk_score = 100

\* C4: a chain produced by the extractor and the scorer repeats no filing_id
\* unless it is flagged circular, and in a flagged chain the only repeated id
\* is the last element, which equals an earlier element.
C4_RepeatOnlyWhenFlaggedAndClosing ==
    \A k \in 1..Len(analyzed_chains) :
        LET c == analyzed_chains[k]
            n == Len(c.chain)
        IN  /\ ~FlaggedCircular(c) => NoRepeat(c.chain)
            /\ FlaggedCircular(c) =>
                  /\ NoRepeat(SubSeq(c.chain, 1, n - 1))
                  /\ \E i \in 1..(n - 1) : c.chain[i] = c.chain[n]

\* C4 witness: chains have been extracted from a network in which a path
\* from the root runs back into itself, and analyzed.
C4_Witness ==
    /\ pc = "returned"
    /\ CycleClosings(network, root_entity) # {}
    /\ analyzed_chains # <<>>

\* root-to-terminal paths that are chains, i.e. hold more than one entity
ChainPaths(net, root) == {p \in RootToTerminalPaths(net, root) : Len(p) > 1}

\* C10 as stated: the emitted chains are exactly the root-to-terminal paths
\* (of more than one entity, a lone root being no chain), one chain per path.
C10_ChainsAreAllRootToTerminalPaths ==
    Extracted =>
        /\ Range(chains) = ChainPaths(network, root_entity)
        /\ Len(chains) = Cardinality(ChainPaths(network, root_entity))

\* the root-to-terminal paths the extractor keeps
EmittedPaths(net, root) ==
    {p \in RootToTerminalPaths(net, root) :
        Len(p) > 1 /\ Len(p) <= max_chain_depth + 1}

\* C10 amended: the emitted chains are exactly the simple root-to-terminal
\* paths of more than one and at most max_chain_depth + 1 entities, one chain
\* per path, so an entity on several such paths is in each of their chains.
C10_ChainsAreBoundedRootToTerminalPaths ==
    Extracted =>
        /\ Range(chains) = EmittedPaths(network, root_entity)
        /\ Len(chains) = Cardinality(EmittedPaths(network, root_entity))

\* C10 witness: two different emitted chains share an entity other than the
\* root.
C10_Witness ==
    /\ Extracted
    /\ \E i, j \in 1..Len(chains) :
          /\ i # j
          /\ (Range(chains[i]) \cap Range(chains[j])) \ {root_entity} # {}

\* C11: a path is recorded as a chain only if it holds more than one entity:
\* every chain emitted by _detect_ownership_chains has at least two entities
\* and starts with the root, and a root without owns edges yields no chain.
C11_ChainsHaveTwoEntitiesFromRoot ==
    Extracted =>
        /\ \A k \in 1..Len(chains) :
              /\ Len(chains[k]) >= 2
              /\ chains[k][1] = root_entity
        /\ network[root_entity].owns = <<>> => chains = <<>>

\* C11 witness: the extractor ran on a root that owns nothing, in a network
\* of several entities, and returned no chain.
C11_Witness ==
    /\ Extracted
    /\ network[root_entity].owns = <<>>
    /\ Cardinality(DOMAIN network) > 1
    /\ chains = <<>>

\* the elements of the chain, other than entity chain[k] itself, that share
\* an officer identity with it
SharingElements(net, chain, k) ==
    {j \in 1..Len(chain) :
        /\ chain[j] # chain[k]
        /\ _has_shared_officer(net[chain[k]], net[chain[j]])}

\* what the element at position k adds to the score
IndicatorContribution(net, chain, k) ==
      (IF net[chain[k]].recent THEN 15 ELSE 0)
    + (IF Len(net[chain[k]].officers) <= 2 THEN 20 ELSE 0)
    + 10 * Cardinality(SharingElements(net, chain, k))

RECURSIVE SumIndicatorContributions(_, _, _)
SumIndicatorContributions(net, chain, k) ==
    IF k = 0 THEN 0
    ELSE SumIndicatorContributions(net, chain, k - 1)
         + IndicatorContribution(net, chain, k)

\* what the chain as a whole adds: depth patterns and the circular pattern
PatternContribution(chain) ==
      (IF Len(chain) >= 3 THEN 25 ELSE 0)
    + (IF Len(chain) >= 5 THEN 40 ELSE 0)
    + (IF NoRepeat(chain) THEN 0 ELSE 50)

\* the indicator kinds reported for entity id
IndicatorKinds(c, id) == {ind[1] : ind \in {x \in Range(c.shell_indicators) : x[2] = id}}

DepthContribution(net, chain) ==
    RawRiskScore(net, chain)
    - SumIndicatorContributions(net, chain, Len(chain))
    - (IF NoRepeat(chain) THEN 0 ELSE 50)

DeepPattern == "Deep ownership structure (3+ layers)"
VeryDeepPattern == "Very deep ownership structure (5+ layers)"

\* C13: depth patterns are additive: a chain of 3 or more entities has the
\* deep pattern and +25, a chain of 5 or more has both the deep and the very
\* deep pattern and +65 before clamping, a chain of fewer than 3 has no depth
\* pattern and no depth contribution.
C13_DepthPatternsAdditive ==
    \A n \in 1..Len(analyzed_chains) :
        LET c   == analyzed_chains[n]
            len == Len(c.chain)
            pat == Range(c.obfuscation_patterns)
            add == DepthContribution(network, c.chain)
        IN  /\ len < 3 => DeepPattern \notin pat /\ VeryDeepPattern \notin pat /\ add = 0
            /\ (len >= 3 /\ len < 5) =>
                  DeepPattern \in pat /\ VeryDeepPattern \notin pat /\ add = 25
            /\ len >= 5 => DeepPattern \in pat /\ VeryDeepPattern \in pat /\ add = 65

\* C13 witness: a chain of five or more entities has been analyzed with both
\* depth patterns and the depth rules adding 65.
C13_Witness ==
    \E n \in 1..Len(analyzed_chains) :
        LET c == analyzed_chains[n]
        IN  /\ Len(c.chain) >= 5
            /\ DeepPattern \in Range(c.obfuscation_patterns)
            /\ VeryDeepPattern \in Range(c.obfuscation_patterns)
            /\ DepthContribution(network, c.chain) = 65

\* what the circular rule added to the score of the chain before clamping
CircularContribution(net, chain) ==
    RawRiskScore(net, chain)
    - SumIndicatorContributions(net, chain, Len(chain))
    - (IF Len(chain) >= 3 THEN 25 ELSE 0)
    - (IF Len(chain) >= 5 THEN 40 ELSE 0)

\* some filing_id occurs at two positions of the chain
SomeIdTwice(chain) ==
    \E i, j \in 1..Len(chain) : i # j /\ chain[i] = chain[j]

\* C14: _analyze_ownership_chain reports "Circular ownership detected" and
\* adds +50 exactly when some filing_id occurs more than once in the chain it
\* is given; a chain of pairwise distinct filing_ids is never flagged.
C14_CircularFlagIffRepeatedId ==
    \A n \in 1..Len(analyzed_chains) :
        LET c == analyzed_chains[n]
        IN  /\ FlaggedCircular(c) <=> SomeIdTwice(c.chain)
            /\ CircularContribution(network, c.chain) =
                  (IF SomeIdTwice(c.chain) THEN 50 ELSE 0)

\* C14 witness: a chain whose repeated filing_id is not its first entity has
\* been analyzed and flagged.
C14_Witness ==
    \E n \in 1..Len(analyzed_chains) :
        LET c == analyzed_chains[n]
        IN  /\ Len(c.chain) = 3
            /\ c.chain[2] = c.chain[3]
            /\ c.chain[1] # c.chain[3]
            /\ FlaggedCircular(c)
            /\ c.risk_score >= 50

\* p and q are the same number, p and q being quotients
SameNumber(p, q) == p[1] * q[2] = q[1] * p[2]

\* C15: with m the largest risk_score of the chains of the trace, the report
\* has risk_assessment CRITICAL if m >= 70, HIGH if 50 <= m < 70, MEDIUM if
\* 30 <= m < 50 and LOW otherwise, and shell_company_probability is m / 100.
C15_ReportLevelFromMaxScore ==
    (pc = "reported" /\ analyzed_chains # <<>>) =>
        \A m \in 0..100 :
            ( /\ \E k \in 1..Len(analyzed_chains) : analyzed_chains[k].risk_score = m
              /\ \A k \in 1..Len(analyzed_chains) : analyzed_chains[k].risk_score <= m )
            => /\ m >= 70 => report.risk_assessment = "CRITICAL"
               /\ (m >= 50 /\ m < 70) => report.risk_assessment = "HIGH"
               /\ (m >= 30 /\ m < 50) => report.risk_assessment = "MEDIUM"
               /\ m < 30 => report.risk_assessment = "LOW"
               /\ SameNumber(report.shell_company_probability, <<m, 100>>)

\* C15 witness: a report over two chains scoring 50 and 35 came out HIGH with
\* probability 0.5.
C15_Witness ==
    /\ pc = "reported"
    /\ Len(analyzed_chains) = 2
    /\ analyzed_chains[1].risk_score = 50
    /\ analyzed_chains[2].risk_score = 35
    /\ report.risk_assessment = "HIGH"
    /\ SameNumber(report.shell_company_probability, <<1, 2>>)

\* trace_ownership_chain has returned its list
Returned == pc \in {"returned", "reported"}

\* C17: the list returned by trace_ownership_chain is ordered by risk_score
\* non-increasing: of two adjacent chains the earlier has the higher or the
\* same risk_score.
C17_ReturnedChainsSortedByRisk ==
    Returned =>
        \A k \in 1..(Len(analyzed_chains) - 1) :
            analyzed_chains[k].risk_score >= analyzed_chains[k + 1].risk_score

\* C17 witness: the trace returned chains of different scores that were
\* extracted lowest score first.
C17_Witness ==
    /\ Returned
    /\ Len(chains) >= 2
    /\ _analyze_ownership_chain(network, chains[1]).risk_score
          < _analyze_ownership_chain(network, chains[2]).risk_score
    /\ analyzed_chains[1].risk_score > analyzed_chains[Len(analyzed_chains)].risk_score

\* _search_sunbiz_entity returned None: there is no root, nothing was built
RootNotFound == Returned /\ network = <<>>

\* the root was found and the extractor returned no chain
NoChainExtracted == Returned /\ network # <<>> /\ chains = <<>>

\* C16: when the root entity is not found or no chain is extracted,
\* trace_ownership_chain returns the empty list and get_shell_company_report
\* returns a report with risk_assessment LOW, shell_company_probability 0.0
\* and an empty chain list; no failed lookup is raised to the caller.
C16_NothingFoundGivesEmptyLowReport ==
    /\ (RootNotFound \/ NoChainExtracted) => analyzed_chains = <<>>
    /\ (pc = "reported" /\ (RootNotFound \/ NoChainExtracted)) =>
          /\ report.risk_assessment = "LOW"
          /\ SameNumber(report.shell_company_probability, <<0, 100>>)
          /\ report.ownership_chains = <<>>
    /\ pc # "raised"

\* C16 witness: the search for the root failed on a timeout and the report
\* came back empty and LOW.
C16_Witness ==
    /\ pc = "reported"
    /\ RootNotFound
    /\ \E k \in 1..Len(failed_lookups) : failed_lookups[k].kind = "timeout"
    /\ report.risk_assessment = "LOW"
    /\ report.ownership_chains = <<>>

FirstSuccess(filing_id) ==
    LET hits == {k \in 1..Len(details_calls) :
                    /\ details_calls[k].filing_id = filing_id
                    /\ details_calls[k].result # <<>>}
    IN  IF hits = {} THEN 0 ELSE CHOOSE k \in hits : \A j \in hits : k <= j

\* C19: within one tracer session entity_cache holds one Entity per
\* filing_id, under its own filing_id: once a filing_id has been fetched
\* successfully, every later _get_sunbiz_entity_details call for it returns
\* that same Entity without sending a request, the entry is never replaced
\* or removed, and a failed fetch leaves the cache as it was.
C19_EntityCachedOncePerFilingId ==
    /\ \A id \in DOMAIN entity_cache : entity_cache[id].filing_id = id
    /\ \A k \in 1..Len(details_calls) :
          LET call  == details_calls[k]
              first == FirstSuccess(call.filing_id)
          IN  /\ (first # 0 /\ k > first) =>
                    /\ call.result = details_calls[first].result
                    /\ ~call.requested
              /\ first # 0 =>
                    /\ call.filing_id \in DOMAIN entity_cache
                    /\ <<entity_cache[call.filing_id]>> = details_calls[first].result
              /\ call.result = <<>> => call.cache_after = call.cache_before
              /\ DOMAIN call.cache_before \subseteq DOMAIN call.cache_after
    /\ \A id \in DOMAIN registry :
          Cardinality({k \in 1..Len(requests) :
                          requests[k] = [kind |-> "details", key |-> id]})
          <= Cardinality({k \in 1..Len(details_calls) :
                             /\ details_calls[k].filing_id = id
                             /\ (FirstSuccess(id) = 0 \/ k <= FirstSuccess(id))})

\* C19 witness: a fetch failed, the next fetch of the same filing_id
\* succeeded, and a third call for it was answered from the cache although
\* the registry would by then have answered differently.
C19_Witness ==
    /\ Len(details_calls) = 3
    /\ details_calls[1].filing_id = details_calls[2].filing_id
    /\ details_calls[2].filing_id = details_calls[3].filing_id
    /\ details_calls[1].result = <<>>
    /\ details_calls[2].result = <<registry[details_calls[2].filing_id]>>
    /\ details_calls[3].result = details_calls[2].result
    /\ ~details_calls[3].requested
    /\ Len(requests) = 2

\* C20: officer name and address normalization are idempotent: normalizing
\* the result of normalizing a string, the empty string included, gives the
\* same string again.
C20_NormalizationIdempotent ==
    normalization.applied = 2 => normalization.twice = normalization.once

\* C21: _calculate_similarity is symmetric and reflexive: the score of
\* (a, b) equals the score of (b, a), the score of (a, a) is 1.0, and every
\* score lies in [0, 1].
C21_SimilaritySymmetricReflexive ==
    comparison.calculated =>
        /\ SameNumber(comparison.forward, comparison.backward)
        /\ SameNumber(comparison.same, <<1, 1>>)
        /\ \A score \in {comparison.forward, comparison.backward, comparison.same} :
              score[1] >= 0 /\ score[1] <= score[2]

\* the depths at which the run expanded an entity
ExpandedDepths == {build_log[k].depth : k \in {i \in 1..Len(build_log) :
                                                  build_log[i].event = "expand"}}

\* C22: the max_depth supplied in an ownership-analysis request is the
\* maximum depth to which ownership chains are searched for that request:
\* the BFS run on behalf of the request expands at most that many levels.
C22_RequestMaxDepthBoundsSearch ==
    calls[1].status = "tracing" =>
        \A depth \in ExpandedDepths : depth < calls[1].max_depth

\* the details calls that found filing_id in entity_cache
AnsweredFromCache(call) == call.filing_id \in DOMAIN call.cache_before

\* C27: every HTTP request sent to the registry, search or details, comes
\* directly after a completed _rate_limit wait of the same operation for the
\* same key, with no other request in between; and a details lookup answered
\* from entity_cache adds neither a wait nor a request to the traffic.
C27_RequestsFollowRateLimitWait ==
    /\ [](\A k \in 1..Len(traffic) :
             traffic[k].event = "request" =>
                 /\ k > 1
                 /\ traffic[k - 1] = RateLimitWait(traffic[k].op, traffic[k].key))
    /\ [](Len(requests) =
             Len(SelectSeq(traffic, LAMBDA t : t.event = "request")))
    /\ [][(Len(details_calls') > Len(details_calls)
              /\ AnsweredFromCache(details_calls'[Len(details_calls')]))
             => traffic' = traffic /\ requests' = requests]_vars

\* C27 witness: a search and a details request went out, each after its
\* wait, and a later details lookup for the same filing_id was answered from
\* entity_cache.
C27_Witness ==
    /\ \E k \in 1..Len(traffic) : traffic[k].event = "request" /\ traffic[k].op = "search"
    /\ \E k \in 1..Len(traffic) : traffic[k].event = "request" /\ traffic[k].op = "details"
    /\ details_calls # <<>>
    /\ AnsweredFromCache(details_calls[Len(details_calls)])
    /\ Len(SelectSeq(traffic, LAMBDA t : t.op = "details")) = 2

\* C28: every analyze_ownership_chains call constructs an OwnershipTracer of
\* its own, so that concurrent calls hold different tracer objects and the
\* entity_cache and last_request_time of a tracer are read and written only
\* by the call that constructed it.
C28_SessionsUseOwnTracer ==
    /\ [](\A s, t \in 1..NumSessions :
             (s # t /\ sessions[s].tracer # 0 /\ sessions[t].tracer # 0)
                 => sessions[s].tracer # sessions[t].tracer)
    /\ [](\A a \in accesses : tracers[a.tracer].constructed_by = a.session)
    /\ [][\A k \in 1..Len(tracers) :
             tracers'[k] # tracers[k] =>
                 /\ sessions'[tracers[k].constructed_by].lookups >
                        sessions[tracers[k].constructed_by].lookups
                 /\ \A s \in 1..NumSessions \ {tracers[k].constructed_by} :
                        sessions'[s] = sessions[s]]_vars

\* C28 witness: two calls are inside their "async with" together, both have
\* fetched and cached the same filing_id, each in its own tracer, and both
\* have read and written last_request_time.
C28_Witness ==
    /\ \A s \in 1..2 : sessions[s].pc = "entered" /\ sessions[s].lookups > 0
    /\ sessions[1].tracer # sessions[2].tracer
    /\ \A s \in 1..2 : 1 \in DOMAIN tracers[sessions[s].tracer].entity_cache
    /\ \A s \in 1..2 : \A mode \in {"read", "write"} :
          Access(s, sessions[s].tracer, mode, "last_request_time") \in accesses

\* the chain goes along owns edges from each element to the next
FollowsOwnsEdges(net, c) ==
    \A i \in 1..(Len(c) - 1) : c[i + 1] \in OwnsSet(net, c[i])

\* paths from the root that build_chain gives up: <<p, e>> where the next
\* entity e is already on the simple path p, or where p already holds more
\* than max_chain_depth entities and e would be the next
CutOffPaths(net, root) ==
    CycleClosings(net, root)
        \cup UNION {{<<p, e>> : e \in OwnsSet(net, p[Len(p)])} :
                       p \in {q \in SimplePathsFrom(net, root) : Len(q) > max_chain_depth}}

\* C30: every chain emitted by _detect_ownership_chains goes along owns edges
\* from one element to the next and ends at an entity that owns nothing; a
\* path cut off by the max_chain_depth ceiling or by meeting a filing_id
\* already on it yields no chain: neither the path so far nor the path with
\* the refused entity is emitted.
C30_ChainsAreCompleteOwnsPaths ==
    Extracted =>
        /\ \A k \in 1..Len(chains) :
              /\ FollowsOwnsEdges(network, chains[k])
              /\ network[chains[k][Len(chains[k])]].owns = <<>>
        /\ \A pe \in CutOffPaths(network, root_entity) :
              /\ pe[1] \notin Range(chains)
              /\ Append(pe[1], pe[2]) \notin Range(chains)

\* C30 witness: the extractor returned chains for a network in which another
\* path from the root was cut off.
C30_Witness ==
    /\ Extracted
    /\ chains # <<>>
    /\ CutOffPaths(network, root_entity) # {}

\* C30 witness for the ceiling: a single path of more than max_chain_depth + 1
\* entities yields no chain.
C30_CeilingReached ==
    /\ Extracted
    /\ chains = <<>>
    /\ \E pe \in CutOffPaths(network, root_entity) : Len(pe[1]) > max_chain_depth

-----------------------------------------------------------------------------
(* Properties of the graph builder                                          *)

\* C5: _build_ownership_network expands at most max_depth levels (a level is
\* expanded only while current_depth < max_depth, and current_depth never
\* passes max_depth), and no entity of the network has an ownership_depth
\* greater than max_depth.
C5_BuildWithinMaxDepth ==
    /\ current_depth <= max_depth
    /\ pc = "build_level" => current_depth < max_depth
    /\ \A id \in DOMAIN network : network[id].ownership_depth <= max_depth

\* C5 witness: the build returned because max_depth levels were expanded,
\* with discovered entities still waiting to be expanded.
C5_Witness ==
    /\ pc = "detect"
    /\ max_depth >= 1
    /\ current_depth = max_depth
    /\ entities_to_process # <<>>
    /\ DOMAIN network \ processed_entities # {}

\* C9: when two distinct expanded entities E1 and E2 of the network each
\* have an ownership-titled officer who is the same identity as an officer of
\* a related entity E3, the built network records E1 owns E3 and E2 owns E3.
C9_MultiParentOwnsRecorded ==
    Built =>
        \A e1, e2 \in processed_entities : \A e3 \in DOMAIN network :
            ( /\ e1 # e2 /\ e3 # e1 /\ e3 # e2
              /\ e3 \in Range(_find_related_entities(network[e1]))
              /\ e3 \in Range(_find_related_entities(network[e2]))
              /\ _is_ownership_relationship(network[e1], network[e3])
              /\ _is_ownership_relationship(network[e2], network[e3]) )
            => /\ e1 \in Range(network[e3].owned_by)
               /\ e2 \in Range(network[e3].owned_by)
               /\ e3 \in Range(network[e1].owns)
               /\ e3 \in Range(network[e2].owns)

\* the BFS level at which the run first reached the entity: 0 for the root,
\* else the depth it was queued for when it was discovered
FirstReachedLevel(id) ==
    IF id = root_entity THEN 0
    ELSE LET k == CHOOSE i \in 1..Len(build_log) :
                      /\ build_log[i].event = "queue"
                      /\ build_log[i].filing_id = id
                      /\ \A j \in 1..(i - 1) :
                            ~(build_log[j].event = "queue" /\ build_log[j].filing_id = id)
         IN  build_log[k].depth

\* C23: after _build_ownership_network returns, every entity in the network
\* has ownership_depth equal to the BFS level at which it was first reached:
\* 0 for the root and d+1 for an entity first discovered while expanding a
\* level-d entity, the entities discovered while expanding the last level
\* included.
C23_OwnershipDepthIsFirstReachedLevel ==
    Built =>
        \A id \in DOMAIN network : network[id].ownership_depth = FirstReachedLevel(id)

\* the positions of the build_log entries of the kind
LogPositions(event) == {i \in 1..Len(build_log) : build_log[i].event = event}

\* C24: during one _build_ownership_network run each filing_id is expanded
\* (passed to _find_related_entities) at most once, a filing_id already in
\* the network (the root, or one queued before) is never queued again, and
\* entities are expanded in non-decreasing depth order.
C24_ExpandedOnceInDepthOrder ==
    /\ \A i, j \in LogPositions("expand") :
          /\ build_log[i].filing_id = build_log[j].filing_id => i = j
          /\ i < j => build_log[i].depth <= build_log[j].depth
    /\ \A i, j \in LogPositions("queue") :
          /\ build_log[i].filing_id # root_entity
          /\ build_log[i].filing_id = build_log[j].filing_id => i = j

\* a returned run that expanded every registered entity over two or more
\* levels, the last expanded entity finding only entities the network has
C24_Witness ==
    /\ Built
    /\ Cardinality(LogPositions("expand")) = NumRegistered
    /\ Cardinality(ExpandedDepths) >= 2
    /\ build_log[Len(build_log)].event = "expand"
    /\ _find_related_entities(network[build_log[Len(build_log)].filing_id]) # <<>>

\* the while loop of _build_ownership_network was left because max_depth
\* levels were processed or because the last level queued nothing
BfsStoppedInBounds ==
    /\ current_depth <= max_depth
    /\ current_depth = max_depth \/ entities_to_process = <<>>

\* how far trace_ownership_chain and the report after it are from the end:
\* the phase, then the levels the BFS may still run (twice, plus one before
\* a level starts), then the iterations left in the running for loop
TraceRank ==
    CASE pc = "search"      -> <<6, 0, 0>>
      [] pc = "details"     -> <<5, 0, 0>>
      [] pc = "build"       -> <<4, 2 * (max_depth - current_depth) + 1, 0>>
      [] pc = "build_level" -> <<4, 2 * (max_depth - current_depth),
                                 Len(current_level_entities) + 1 - level_index>>
      [] pc = "detect"      -> <<3, 0, 0>>
      [] pc = "analyze"     -> <<2, 0, Len(chains) - Len(analyzed_chains)>>
      [] pc = "returned"    -> <<1, 0, 0>>
      [] pc = "reported"    -> <<0, 0, 0>>
      [] OTHER              -> <<7, 0, 0>>

\* the lexicographic order on ranks of natural numbers, which is well-founded
LexLess(r, q) ==
    \/ r[1] < q[1]
    \/ r[1] = q[1] /\ r[2] < q[2]
    \/ r[1] = q[1] /\ r[2] = q[2] /\ r[3] < q[3]

\* the code has a next step to take from where it is
TraceCanGoOn ==
    \/ pc \in {"search", "details", "build", "detect", "returned"}
    \/ pc = "build_level" /\ level_index <= Len(current_level_entities) + 1
    \/ pc = "analyze" /\ Len(analyzed_chains) <= Len(chains)

\* C25: for any registry, any max_depth and any pattern of lookup failures
\* trace_ownership_chain eventually returns: every step of the trace lowers
\* a rank in a well-founded order, so no run goes on forever, and the trace
\* is never stuck before it has returned; the BFS loop ends after at most
\* max_depth levels or as soon as a level discovers no new entity, and the
\* chain walk ends on every owns graph, cyclic ones included.
C25_TraceEventuallyReturns ==
    /\ [][LexLess(TraceRank', TraceRank)]_vars
    /\ [](\A k \in 1..3 : TraceRank[k] >= 0)
    /\ [](pc # "reported" => TraceCanGoOn)
    /\ [](pc \in {"detect", "analyze"} => BfsStoppedInBounds)

\* a trace that returned after a failed officer search, two or more levels
\* and a walk that emitted a chain
C25_Witness ==
    /\ Returned
    /\ \E k \in 1..Len(failed_lookups) : failed_lookups[k].lookup = "officer_search"
    /\ current_depth >= 2
    /\ analyzed_chains # <<>>

\* the officer search is the one shipped: it has no entry for any name
ShippedOfficerSearch == DOMAIN officer_index = {}

\* C26: with the shipped officer search, which returns no result for any
\* name, the network never holds anything but the root entity, so
\* trace_ownership_chain returns the empty list and get_shell_company_report
\* returns LOW with probability 0.0, for every entity name and registry.
C26_ShippedSearchGivesRootOnlyNetwork ==
    ShippedOfficerSearch =>
        /\ DOMAIN network \subseteq {1}
        /\ pc \in {"build", "build_level", "detect", "analyze"} => DOMAIN network = {root_entity}
        /\ \A id \in DOMAIN network : network[id].owns = <<>> /\ network[id].owned_by = <<>>
        /\ chains = <<>>
        /\ analyzed_chains = <<>>
        /\ pc = "reported" =>
              /\ report.risk_assessment = "LOW"
              /\ SameNumber(report.shell_company_probability, <<0, 100>>)
              /\ report.ownership_chains = <<>>

\* C26 witness: the root was found with officers it shares with another
\* registered entity, was expanded, and the report came back empty and LOW.
C26_Witness ==
    /\ ShippedOfficerSearch
    /\ pc = "reported"
    /\ DOMAIN network = {1}
    /\ 1 \in processed_entities
    /\ \E id \in DOMAIN registry \ {1} : _has_shared_officer(registry[1], registry[id])
    /\ report.risk_assessment = "LOW"

\* C29: in a trace on a fresh tracer the network built by
\* _build_ownership_network gives every entity at most one owned_by entry and
\* the root none, and its owns edges have no cycle; so no chain returned by
\* trace_ownership_chain repeats a filing_id and none is reported with
\* "Circular ownership detected".
C29_BuiltNetworkIsForest ==
    /\ \A id \in DOMAIN network :
          /\ Len(network[id].owned_by) <= 1
          /\ CycleClosings(network, id) = {}
    /\ root_entity \in DOMAIN network => network[root_entity].owned_by = <<>>
    /\ \A k \in 1..Len(chains) : NoRepeat(chains[k])
    /\ \A k \in 1..Len(analyzed_chains) :
          /\ NoRepeat(analyzed_chains[k].chain)
          /\ ~FlaggedCircular(analyzed_chains[k])

\* C29 witness: a report with chains was returned for a network in which an
\* entity with one owner is also related to, and in an ownership relationship
\* with, another expanded entity.
C29_Witness ==
    /\ pc = "reported"
    /\ analyzed_chains # <<>>
    /\ \E e2 \in processed_entities : \E e3 \in DOMAIN network \ {e2} :
          /\ Len(network[e3].owned_by) = 1
          /\ e2 \notin Range(network[e3].owned_by)
          /\ e3 \in Range(_find_related_entities(network[e2]))
          /\ _is_ownership_relationship(network[e2], network[e3])

-----------------------------------------------------------------------------
(* Properties of the rate limiter                                           *)

\* consecutive _rate_limit completions (request dispatches) are at least
\* request_delay apart
CompletionsSpaced ==
    \A i \in 1..(Len(completions) - 1) :
        completions[i + 1].time - completions[i].time >= request_delay

\* C7: lookups of one session that call _rate_limit concurrently are still
\* dispatched one at a time, each at least request_delay after the previous.
C7_ConcurrentDispatchesSpaced == CompletionsSpaced

\* C8: with sequential calls, consecutive _rate_limit calls complete at
\* least request_delay apart; a call that finds less than request_delay
\* elapsed sleeps for the remaining time, i.e. until last_request_time +
\* request_delay, and last_request_time is recorded only after the sleep.
C8_SequentialCallsSpaced ==
    /\ CompletionsSpaced
    /\ \A t \in DOMAIN lookup :
          InLimiter(t) => lookup[t].wake = last_request_time + request_delay
    /\ completions # <<>> =>
          last_request_time = completions[Len(completions)].time

\* C8 witness: the second of two consecutive calls slept and completed
\* exactly request_delay after the first.
C8_Witness ==
    /\ Len(completions) >= 2
    /\ completions[2].slept
    /\ completions[2].time - completions[1].time = request_delay

-----------------------------------------------------------------------------
(* Properties of the endpoint                                               *)

\* maxDepth in [1,10] and similarity threshold in [0.5,1.0]
InAllowedRange(c) ==
    /\ c.max_depth \in 1..10
    /\ c.similarity_threshold \in 50..100

====
